---- MODULE Spec2Model ----
(***************************************************************************)
(* Bounty challenge: the PostgreSQL issue ledger (src/src/pg_storage.rs,   *)
(* src/src/server.rs, src/src/challenge.rs) and the wasm challenge store   *)
(* (src/wasm/src).  One repository is modelled, so an issue is identified  *)
(* by its number.                                                          *)
(***************************************************************************)
EXTENDS Integers, Sequences, FiniteSets, TLC

\* ------------------------------------------------------------------ bounds
MaxIssue == 1
MaxCalls == 3
MaxRegs == 2
MaxSyncCalls == 2
MaxPgRegs == 1
MaxAttempts == 2
MaxValid == 54
MaxStars == 4
MaxPenalties == 3
MaxIncrements == 3
MaxNow == 2
MaxBonuses == 1

Issues == 1..MaxIssue
Hotkeys == {"hk1", "hk2"}
NoHotkey == "NULL"
Logins == {"Alice", "alice", "bob"}
LabelNames == {"valid", "invalid"}
IssueStates == {"open", "closed"}
StarRepos == {"sr1"}
Procs == {"p1", "p2"}

\* str::to_lowercase / SQL LOWER() on the logins of the model
to_lowercase(s) == IF s = "Alice" THEN "alice" ELSE s

Usernames == {to_lowercase(s) : s \in Logins}

\* GitHubIssue.user.login of issue i (fixed by GitHub when the issue is opened)
AuthorOf(i) == IF i % 2 = 1 THEN "Alice" ELSE "bob"

\* ------------------------------------------------------------------ state
VARIABLES
    github_registrations,   \* lower-cased username -> hotkey or NoHotkey
    github_issues,          \* issue number -> row of github_issues (or NoRow)
    resolved_issues,        \* sequence of credit rows
    invalid_issues,         \* sequence of penalty rows
    github_stars,           \* set of <<username, star repo>> rows
    proc,                   \* per sync process: the locals of its upsert_issue call
    last,                   \* the last completed request and its outcome
    ncalls,                 \* number of sync and claim requests handled so far
    nregs,                  \* number of registration requests handled so far
    credited_ever,          \* issue number -> hotkeys that ever held its credit
    seen_unregistered,      \* issues whose credit row was written while the author had no registration
    started_from,           \* process -> the database as it was when its current call began
    pass,                   \* the sync pass being retried by its caller
    kv,                     \* the wasm module's host storage, by key prefix
    wproc,                  \* per wasm call in flight: the locals of its claim processing
    admin_bonuses,          \* rows of admin_bonuses; the id of a row is its position
    now,                    \* the database clock, in hours
    weights_cache           \* the server's cached rows of current_weights

pgTables == <<github_registrations, github_issues, resolved_issues, invalid_issues, github_stars>>
vars == <<github_registrations, github_issues, resolved_issues, invalid_issues, github_stars,
          proc, last, ncalls, nregs, credited_ever, seen_unregistered, started_from, pass,
          kv, wproc, admin_bonuses, now, weights_cache>>
wasmVars == <<kv, wproc>>
bonusVars == <<admin_bonuses, now, weights_cache>>

NoRow == [present |-> FALSE, labels |-> {}, state |-> "open", deleted |-> FALSE]

\* the database as one value, for the operators below
DB == [github_registrations |-> github_registrations,
       github_issues |-> github_issues,
       resolved_issues |-> resolved_issues,
       invalid_issues |-> invalid_issues,
       github_stars |-> github_stars]

EmptyDB == [github_registrations |-> [u \in Usernames |-> NoHotkey],
            github_issues |-> [i \in Issues |-> NoRow],
            resolved_issues |-> << >>,
            invalid_issues |-> << >>,
            github_stars |-> {}]

\* ------------------------------------------------------------ SQL helpers
\* SELECT 1 FROM <table> WHERE (repo_owner, repo_name, issue_id) = key
HasRow(table, i) == \E n \in 1..Len(table) : table[n].issue_id = i

RowsOf(table, i) == {n \in 1..Len(table) : table[n].issue_id = i}

\* INSERT ... ON CONFLICT (repo_owner, repo_name, issue_id) DO NOTHING
InsertOnConflictDoNothing(table, row) ==
    IF HasRow(table, row.issue_id) THEN table ELSE Append(table, row)

\* a DELETE whose WHERE clause matches no row
DeleteNothing(table, i) == table

\* DELETE FROM <table> WHERE (repo_owner, repo_name, issue_id) = key
DeleteRows(table, i) == SelectSeq(table, LAMBDA r : r.issue_id # i)

\* SELECT hotkey FROM github_registrations WHERE LOWER(github_username) = LOWER($1)
get_hotkey_by_github(reg, login) == reg[to_lowercase(login)]

\* SELECT github_username FROM github_registrations WHERE hotkey = $1
get_github_by_hotkey(reg, hotkey) ==
    IF \E u \in Usernames : reg[u] = hotkey
    THEN CHOOSE u \in Usernames : reg[u] = hotkey
    ELSE "NONE"

\* ------------------------------------------------------- registrations (pg)
\* PgStorage::register_user: DELETE the hotkey's other rows, then upsert on github_username.
\* failAt names the statement that fails ("none": no failure).
register_user(reg, github_username, hotkey, failAt) ==
    LET username_lower == to_lowercase(github_username)
        deleted == [u \in Usernames |->
                      IF reg[u] = hotkey /\ u # username_lower THEN NoHotkey ELSE reg[u]]
    IN  IF failAt = "delete" THEN reg
        ELSE IF failAt = "insert" THEN deleted
        ELSE [deleted EXCEPT ![username_lower] = hotkey]

\* ------------------------------------------------------------ upsert_issue
NewCall(i, labels, state) ==
    [pc |-> "pool", issue |-> i, labels |-> labels, state |-> state,
     had_valid |-> FALSE, had_invalid |-> FALSE, already_recorded_invalid |-> FALSE,
     change |-> "None", hotkey |-> NoHotkey, result |-> "Pending"]

Idle == [NewCall(1, {}, "open") EXCEPT !.pc = "idle"]

\* the branch of the change detection that queries resolved_issues
NeedsCreditQuery(l) ==
    LET has_valid == "valid" \in l.labels
        has_invalid == "invalid" \in l.labels
    IN  /\ ~(has_invalid /\ ~l.had_invalid)
        /\ ~(l.had_valid /\ ~has_valid)
        /\ has_valid

\* pg_storage.rs 1308-1356
DetectChange(l, already_credited) ==
    LET has_valid == "valid" \in l.labels
        has_invalid == "invalid" \in l.labels
    IN  IF has_invalid /\ ~l.had_invalid
        THEN (IF ~l.already_recorded_invalid THEN "BecameInvalid" ELSE "None")
        ELSE IF l.had_valid /\ ~has_valid THEN "LostValid"
        ELSE IF has_valid /\ ~l.had_valid
        THEN (IF ~already_credited THEN "BecameValid" ELSE "None")
        ELSE IF has_valid /\ l.had_valid
        THEN (IF ~already_credited THEN "BecameValid" ELSE "None")
        ELSE IF has_invalid /\ l.had_invalid
        THEN (IF ~l.already_recorded_invalid THEN "BecameInvalid" ELSE "None")
        ELSE "None"

CreditRow(l) ==
    [issue_id |-> l.issue, github_username |-> to_lowercase(AuthorOf(l.issue)), hotkey |-> l.hotkey]

\* the INSERT INTO resolved_issues of upsert_issue (1420-1437)
InsertCredit(table, row) == InsertOnConflictDoNothing(table, row)

\* the INSERT INTO invalid_issues of upsert_issue (1368-1383)
InsertPenalty(table, row) == InsertOnConflictDoNothing(table, row)

\* One storage statement of upsert_issue.  fail: the statement returns an error.
UpsertStep(db, l, fail) ==
    LET abort == [db |-> db, l |-> [l EXCEPT !.pc = "done", !.result = "Err"]]
        row == db.github_issues[l.issue]
    IN  CASE l.pc = "pool" ->
               IF fail THEN abort ELSE [db |-> db, l |-> [l EXCEPT !.pc = "prev"]]
          [] l.pc = "prev" ->
               IF fail THEN abort
               ELSE [db |-> db,
                     l |-> [l EXCEPT !.pc = "inv",
                                     !.had_valid = row.present /\ "valid" \in row.labels,
                                     !.had_invalid = row.present /\ "invalid" \in row.labels]]
          [] l.pc = "inv" ->
               IF fail THEN abort
               ELSE [db |-> db,
                     l |-> [l EXCEPT !.pc = "detect",
                                     !.already_recorded_invalid = HasRow(db.invalid_issues, l.issue)]]
          [] l.pc = "detect" ->
               IF fail /\ NeedsCreditQuery(l) THEN abort
               ELSE LET change == DetectChange(l, HasRow(db.resolved_issues, l.issue))
                    IN  [db |-> db,
                         l |-> [l EXCEPT !.change = change,
                                         !.pc = IF change \in {"BecameInvalid", "BecameValid"}
                                                THEN "lookup"
                                                ELSE IF change = "LostValid" THEN "apply"
                                                ELSE "upsert"]]
          [] l.pc = "lookup" ->
               \* get_hotkey_by_github(..).await.ok().flatten(): an error reads as "not registered"
               [db |-> db,
                l |-> [l EXCEPT !.pc = "apply",
                                !.hotkey = IF fail THEN NoHotkey
                                           ELSE get_hotkey_by_github(db.github_registrations,
                                                                     AuthorOf(l.issue))]]
          [] l.pc = "apply" ->
               IF fail THEN abort
               ELSE [db |-> CASE l.change = "BecameInvalid" ->
                                   [db EXCEPT !.invalid_issues = InsertPenalty(@, CreditRow(l))]
                              [] l.change = "LostValid" ->
                                   [db EXCEPT !.resolved_issues = DeleteRows(@, l.issue)]
                              [] l.change = "BecameValid" ->
                                   [db EXCEPT !.resolved_issues = InsertCredit(@, CreditRow(l))]
                              [] OTHER -> db,
                     l |-> [l EXCEPT !.pc = "upsert"]]
          [] l.pc = "upsert" ->
               IF fail THEN abort
               ELSE [db |-> [db EXCEPT !.github_issues[l.issue] =
                                 [present |-> TRUE, labels |-> l.labels,
                                  state |-> l.state, deleted |-> FALSE]],
                     l |-> [l EXCEPT !.pc = "done", !.result = "Ok"]]
          [] OTHER -> [db |-> db, l |-> l]

UpsertPcs == {"pool", "prev", "inv", "detect", "lookup", "apply", "upsert"}
FailPoints == {"none", "pool", "prev", "inv", "detect", "apply", "upsert"}

RECURSIVE RunUpsert(_, _, _, _)
RunUpsert(db, l, failAt, lookupFail) ==
    IF l.pc = "done" THEN [db |-> db, l |-> l]
    ELSE LET s == UpsertStep(db, l, IF l.pc = "lookup" THEN lookupFail ELSE failAt = l.pc)
         IN  RunUpsert(s.db, s.l, failAt, lookupFail)

\* PgStorage::upsert_issue as one call by one process
upsert_issue(db, i, labels, state, failAt, lookupFail) ==
    RunUpsert(db, NewCall(i, labels, state), failAt, lookupFail)

\* ------------------------------------------------------------- accounting
CountRows(table, hotkey) == Cardinality({n \in 1..Len(table) : table[n].hotkey = hotkey})

\* calculate_user_weight: COUNT(*) FROM resolved_issues WHERE hotkey = $1
valid_points(db, hotkey) == CountRows(db.resolved_issues, hotkey)

\* calculate_user_weight: number of invalid_issues rows WHERE hotkey = $1
invalid_count(db, hotkey) == CountRows(db.invalid_issues, hotkey)

\* get_user_star_count of the username registered for the hotkey
star_count(db, hotkey) ==
    LET u == get_github_by_hotkey(db.github_registrations, hotkey)
    IN  Cardinality({r \in db.github_stars : r[1] = u})

\* calculate_user_weight: net points in quarter points:
\* net points = valid + 0.25 * stars - 2.0 * invalid, weight 0 when net <= 0
net_quarter_points(db, hotkey) ==
    4 * valid_points(db, hotkey) + star_count(db, hotkey) - 8 * invalid_count(db, hotkey)

\* WEIGHT_PER_POINT = 0.02, in units of 0.0001
WEIGHT_PER_POINT == 200

\* weight in units of 0.0001, capped at full weight (1.0)
capped_weight(valid, stars, penalties) ==
    LET net == 4 * valid + stars - 8 * penalties
    IN  IF net <= 0 THEN 0
        ELSE IF (net * WEIGHT_PER_POINT) \div 4 > 10000 THEN 10000
        ELSE (net * WEIGHT_PER_POINT) \div 4

\* calculate_user_weight on the three counts it reads: net points (in quarter points) =
\* valid + 0.25 * stars - 2.0 * penalties; 0 when net <= 0, else net_points * WEIGHT_PER_POINT
\* (in units of 0.0001)
user_weight(valid, stars, penalties) ==
    LET net == 4 * valid + stars - 8 * penalties
    IN  IF net <= 0 THEN 0 ELSE (net * WEIGHT_PER_POINT) \div 4

calculate_user_weight(db, hotkey) ==
    user_weight(valid_points(db, hotkey), star_count(db, hotkey), invalid_count(db, hotkey))

\* hotkey holding the credit of issue i ("NONE": no credit row)
CreditedTo(table, i) ==
    IF HasRow(table, i) THEN table[CHOOSE n \in RowsOf(table, i) : TRUE].hotkey ELSE "NONE"

\* ------------------------------------------------------------ admin bonuses
\* PgStorage::grant_admin_bonus: a new row expiring duration_hours (24 when not given,
\* written << >>; <<h>> is Some(h)) after the clock's reading t; the table's default
\* makes the row active
grant_admin_bonus(bonuses, hotkey, bonus_weight, duration_hours, t) ==
    LET hours == IF duration_hours = << >> THEN 24 ELSE duration_hours[1]
    IN  Append(bonuses, [hotkey |-> hotkey, bonus_weight |-> bonus_weight,
                         expires_at |-> t + hours, active |-> TRUE, reason |-> << >>])

\* the note revoke_bonus appends to the reason: ' [Revoked by ' || $2 || ']'
RevocationNote(revoked_by) == <<"Revoked by", revoked_by>>

\* an UPDATE without the condition active = true
revoke_whatever_active(bonuses, bonus_id, revoked_by) ==
    [n \in DOMAIN bonuses |->
        IF n = bonus_id
        THEN [bonuses[n] EXCEPT !.active = FALSE,
                                !.reason = Append(@, RevocationNote(revoked_by))]
        ELSE bonuses[n]]

\* PgStorage::revoke_bonus: UPDATE ... SET active = false, reason = COALESCE(reason, '') ||
\* the note WHERE id = $1 AND active = true; the reason is kept as the list of its parts,
\* empty for a bonus granted without one
revoke_bonus(bonuses, bonus_id, revoked_by) ==
    [n \in DOMAIN bonuses |->
        IF n = bonus_id /\ bonuses[n].active
        THEN [bonuses[n] EXCEPT !.active = FALSE,
                                !.reason = Append(@, RevocationNote(revoked_by))]
        ELSE bonuses[n]]

\* the rows revoke_bonus updates (its result is whether there was one)
revoked_rows(bonuses, bonus_id) ==
    {n \in DOMAIN bonuses : n = bonus_id /\ bonuses[n].active}

\* the view active_admin_bonuses at clock reading t: ids of the rows that are active
\* and not yet expired
active_admin_bonuses(bonuses, t) ==
    {n \in DOMAIN bonuses : bonuses[n].active /\ t < bonuses[n].expires_at}

\* PgStorage::list_active_bonuses: the rows of the view, ordered by expires_at,
\* each returned with active = true
list_active_bonuses(bonuses, t) ==
    LET ids == active_admin_bonuses(bonuses, t)
        listed == SelectSeq([n \in DOMAIN bonuses |-> [id |-> n, row |-> bonuses[n]]],
                            LAMBDA e : e.id \in ids)
        sorted == SortSeq(listed, LAMBDA a, b : a.row.expires_at < b.row.expires_at)
    IN  [n \in DOMAIN sorted |->
            [id |-> sorted[n].id, hotkey |-> sorted[n].row.hotkey,
             bonus_weight |-> sorted[n].row.bonus_weight,
             expires_at |-> sorted[n].row.expires_at, active |-> TRUE]]

RECURSIVE bonus_weight_of(_, _, _)
\* sum of the bonus weights of the rows in ids that belong to hotkey
bonus_weight_of(bonuses, ids, hotkey) ==
    IF ids = {} THEN 0
    ELSE LET n == CHOOSE m \in ids : TRUE
         IN  (IF bonuses[n].hotkey = hotkey THEN bonuses[n].bonus_weight ELSE 0)
             + bonus_weight_of(bonuses, ids \ {n}, hotkey)

\* the view current_weights at clock reading t: one row per registered hotkey, its
\* weight the weight of its points plus its active bonuses, penalized without net points
current_weights_view(db, bonuses, t) ==
    LET registered(h) == \E u \in Usernames : db.github_registrations[u] = h
        hotkeys == SelectSeq(<<"hk1", "hk2">>, registered)
    IN  [n \in DOMAIN hotkeys |->
            [hotkey |-> hotkeys[n],
             weight |-> calculate_user_weight(db, hotkeys[n])
                        + bonus_weight_of(bonuses, active_admin_bonuses(bonuses, t), hotkeys[n]),
             is_penalized |-> net_quarter_points(db, hotkeys[n]) <= 0]]

\* PgStorage::get_current_weights: SELECT ... FROM current_weights ORDER BY weight DESC
get_current_weights(db, bonuses, t) ==
    SortSeq(current_weights_view(db, bonuses, t), LAMBDA a, b : a.weight > b.weight)

\* the cache before its first refresh; source is the database the rows were read from
EmptyCache == [weights |-> << >>, source |-> EmptyDB, loaded |-> FALSE]

\* server::refresh_weights_cache, the query having succeeded
refresh_weights_cache(db, bonuses, t) ==
    [weights |-> get_current_weights(db, bonuses, t), source |-> db, loaded |-> TRUE]

\* ------------------------------------------------------- other pg requests
\* PgStorage::record_resolved_issue (lookup error propagates, then insert-if-absent)
record_resolved_issue(db, i, github_username, fail) ==
    IF fail THEN db
    ELSE [db EXCEPT !.resolved_issues =
             InsertOnConflictDoNothing(@,
                 [issue_id |-> i, github_username |-> to_lowercase(github_username),
                  hotkey |-> get_hotkey_by_github(db.github_registrations, github_username)])]

\* PgStorage::record_invalid_issue (lookup error propagates, then insert-if-absent)
record_invalid_issue(db, i, github_username, fail) ==
    IF fail THEN db
    ELSE [db EXCEPT !.invalid_issues =
             InsertOnConflictDoNothing(@,
                 [issue_id |-> i, github_username |-> to_lowercase(github_username),
                  hotkey |-> get_hotkey_by_github(db.github_registrations, github_username)])]

\* GitHubClient::verify_issue_validity on the issue as GitHub shows it now
verify_issue_validity(i, author, labels, state) ==
    /\ state = "closed"
    /\ "valid" \in labels
    /\ to_lowercase(AuthorOf(i)) = to_lowercase(author)

\* BountyChallenge::handle_claim for one issue number
handle_claim(db, i, github_username, labels, state, fail) ==
    IF HasRow(db.resolved_issues, i) THEN db
    ELSE IF ~verify_issue_validity(i, github_username, labels, state) THEN db
    ELSE record_resolved_issue(db, i, github_username, fail)

\* an UPDATE that matches no row
mark_no_issue(issues, seen) == issues

\* the same UPDATE that also rewrites the labels of the rows it marks
mark_deleted_and_cleared(issues, seen) ==
    [i \in Issues |-> IF issues[i].present /\ ~issues[i].deleted /\ i \notin seen
                      THEN [issues[i] EXCEPT !.deleted = TRUE, !.labels = {}]
                      ELSE issues[i]]

\* PgStorage::mark_deleted_issues
mark_deleted_issues(issues, seen) ==
    [i \in Issues |-> IF issues[i].present /\ ~issues[i].deleted /\ i \notin seen
                      THEN [issues[i] EXCEPT !.deleted = TRUE]
                      ELSE issues[i]]

\* PgStorage::restore_issue: UPDATE github_issues SET deleted_at = NULL WHERE issue_id = $3
restore_issue(issues, issue_id) ==
    [i \in Issues |-> IF issues[i].present /\ i = issue_id
                      THEN [issues[i] EXCEPT !.deleted = FALSE]
                      ELSE issues[i]]

\* server.rs sync_repo: upsert every fetched issue in turn, then mark_deleted_issues, then
\* update_sync_state; the first error ends the pass.  snaps: the fetched list
\* (seen: issue numbers, labels, state); failIssue/failAt: the statement that fails.
RECURSIVE SyncFrom(_, _, _, _, _, _)
SyncFrom(db, snaps, i, failIssue, failAt, lookupFail) ==
    IF i > MaxIssue
    THEN IF failAt = "mark_deleted" THEN [db |-> db, ok |-> FALSE]
         ELSE LET marked == [db EXCEPT !.github_issues = mark_deleted_issues(@, snaps.seen)]
              IN  [db |-> marked, ok |-> failAt # "sync_state"]
    ELSE IF i \notin snaps.seen
    THEN SyncFrom(db, snaps, i + 1, failIssue, failAt, lookupFail)
    ELSE LET r == upsert_issue(db, i, snaps.labels[i], snaps.state[i],
                               IF failIssue = i THEN failAt ELSE "none", lookupFail)
         IN  IF r.l.result = "Err" THEN [db |-> r.db, ok |-> FALSE]
             ELSE SyncFrom(r.db, snaps, i + 1, failIssue, failAt, lookupFail)

sync_repo(db, snaps, failIssue, failAt, lookupFail) ==
    IF failAt = "fetch" THEN [db |-> db, ok |-> FALSE]
    ELSE SyncFrom(db, snaps, 1, failIssue, failAt, lookupFail)

Snapshots ==
    {[seen |-> s, labels |-> lb, state |-> st] :
        s \in SUBSET Issues,
        lb \in [Issues -> SUBSET LabelNames],
        st \in [Issues -> IssueStates]}

\* fetched lists, with the fields of unseen issues normalised
FetchedLists ==
    {f \in Snapshots : \A i \in Issues : i \notin f.seen => f.labels[i] = {} /\ f.state[i] = "open"}

\* ------------------------------------------------- the fetch of a repository's issues
\* GitHubClient::get_all_issues asks for pages of per_page issues
PER_PAGE == 100

\* what a page request ends in: a page, a response with an error status, or a transport
\* or decoding error
PageOutcomes == {"page", "status", "error"}

RECURSIVE get_all_pages(_, _, _, _, _)
\* the loop of get_all_issues from the given page on: numbers is the repository's listing,
\* all_issues what the earlier pages gave, and the request for failPage ends in outcome
get_all_pages(numbers, page, all_issues, failPage, outcome) ==
    LET first == (page - 1) * PER_PAGE + 1
        issues == SubSeq(numbers, first,
                         IF Len(numbers) < page * PER_PAGE THEN Len(numbers)
                         ELSE page * PER_PAGE)
        count == Len(issues)
    IN  IF page = failPage /\ outcome = "error" THEN [ok |-> FALSE, issues |-> << >>]
        ELSE IF page = failPage /\ outcome = "status" THEN [ok |-> TRUE, issues |-> all_issues]
        ELSE IF count < PER_PAGE THEN [ok |-> TRUE, issues |-> all_issues \o issues]
        ELSE get_all_pages(numbers, page + 1, all_issues \o issues, failPage, outcome)

\* GitHubClient::get_all_issues on a repository whose issues are those of listing.seen
get_all_issues(listing, failPage, outcome) ==
    get_all_pages(SelectSeq([i \in 1..MaxIssue |-> i], LAMBDA i : i \in listing.seen),
                  1, << >>, failPage, outcome)

\* a fetched list holding the issues of the given numbers only
ListOf(listing, issues) ==
    LET seen == {issues[n] : n \in DOMAIN issues}
    IN  [seen |-> seen,
         labels |-> [i \in Issues |-> IF i \in seen THEN listing.labels[i] ELSE {}],
         state |-> [i \in Issues |-> IF i \in seen THEN listing.state[i] ELSE "open"]]

\* server::sync_repo with its fetch: an Err of get_all_issues ends the pass before any
\* write, an Ok list is upserted and handed to mark_deleted_issues
fetch_and_sync_repo(db, listing, failPage, outcome) ==
    LET fetched == get_all_issues(listing, failPage, outcome)
    IN  IF ~fetched.ok THEN [db |-> db, ok |-> FALSE]
        ELSE sync_repo(db, ListOf(listing, fetched.issues), 1, "none", FALSE)

PassFailPoints == FailPoints \cup {"fetch", "mark_deleted", "sync_state"}


\* ------------------------------------------------------- wasm host storage
Validators == {"v1", "v2"}

\* types.rs IssueRecord; present = FALSE stands for an empty value under the key
NoIssueRecord ==
    [present |-> FALSE, author |-> "", is_closed |-> FALSE, has_valid_label |-> FALSE,
     has_invalid_label |-> FALSE, claimed_by_hotkey |-> NoHotkey]

\* types.rs UserBalance::default
NoBalance ==
    [valid_count |-> 0, invalid_count |-> 0, duplicate_count |-> 0, star_count |-> 0,
     is_penalized |-> FALSE]

EmptyKV ==
    [user |-> [h \in Hotkeys |-> "NONE"],
     github |-> [u \in Usernames |-> NoHotkey],
     issue |-> [i \in Issues |-> NoIssueRecord],
     invalid_issue |-> [i \in Issues |-> "NONE"],
     balance |-> [h \in Hotkeys |-> NoBalance],
     synced_issues |-> [i \in Issues |-> NoIssueRecord],
     sync_proposals |-> << >>,
     issue_validity_proposals |-> << >>,
     registered_hotkeys |-> << >>,
     leaderboard |-> << >>,
     timeout_config |-> "default"]

\* the issue records validators report for issue i
SyncedRecords(i) ==
    {[present |-> TRUE, author |-> AuthorOf(i), is_closed |-> c, has_valid_label |-> v,
      has_invalid_label |-> n, claimed_by_hotkey |-> NoHotkey] :
        <<c, v, n>> \in {<<TRUE, TRUE, FALSE>>, <<FALSE, TRUE, FALSE>>,
                         <<TRUE, TRUE, TRUE>>, <<TRUE, FALSE, FALSE>>}}

\* the issue lists a validator may propose
IssueLists == {f \in [Issues -> UNION {SyncedRecords(i) : i \in Issues} \cup {NoIssueRecord}] :
                  \A i \in Issues : f[i] \in SyncedRecords(i) \cup {NoIssueRecord}}

\* storage::get_hotkey_by_github
wasm_get_hotkey_by_github(store, github_username) == store.github[to_lowercase(github_username)]

\* a lookup that never finds a registration of the hotkey
no_github_by_hotkey(store, hotkey) == "NONE"

\* storage::get_github_by_hotkey
wasm_get_github_by_hotkey(store, hotkey) == store.user[hotkey]

\* storage::register_user: refuses a username bound to another hotkey and a hotkey bound to
\* another username, then writes user:<hotkey> and github:<lower-cased username>
wasm_register_user(store, github_username, hotkey) ==
    LET existing_hotkey == wasm_get_hotkey_by_github(store, github_username)
        existing_github == wasm_get_github_by_hotkey(store, hotkey)
    IN  IF existing_hotkey # NoHotkey /\ existing_hotkey # hotkey
        THEN [kv |-> store, result |-> FALSE]
        ELSE IF existing_github # "NONE"
                /\ to_lowercase(existing_github) # to_lowercase(github_username)
        THEN [kv |-> store, result |-> FALSE]
        ELSE [kv |-> [store EXCEPT !.user[hotkey] = github_username,
                                   !.github[to_lowercase(github_username)] = hotkey],
              result |-> TRUE]

\* storage::increment_valid_count applied to a balance that was read
increment_valid_count(balance) == [balance EXCEPT !.valid_count = @ + 1]

\* storage::increment_invalid_count applied to a balance that was read
increment_invalid_count(balance) ==
    LET sat_sub(a, b) == IF a > b THEN a - b ELSE 0
        incremented == balance.invalid_count + 1
        penalty == sat_sub(incremented, balance.valid_count)
                   + sat_sub(balance.duplicate_count, balance.valid_count)
    IN  [balance EXCEPT !.invalid_count = incremented, !.is_penalized = penalty > 0]

\* storage::record_invalid_issue: writes the invalid_issue record, then penalizes the hotkey
\* the given username is registered to
wasm_record_invalid_issue(store, i, github_username) ==
    LET written == [store EXCEPT !.invalid_issue[i] = github_username]
        hotkey == wasm_get_hotkey_by_github(written, github_username)
    IN  IF hotkey # NoHotkey
        THEN [written EXCEPT !.balance[hotkey] = increment_invalid_count(@)]
        ELSE written

\* storage::ensure_hotkey_tracked (add_registered_hotkey): pushed unless already listed
ensure_hotkey_tracked(store, hotkey) ==
    IF \E n \in 1..Len(store.registered_hotkeys) : store.registered_hotkeys[n] = hotkey
    THEN store
    ELSE [store EXCEPT !.registered_hotkeys = Append(@, hotkey)]

\* scoring::WEIGHT_PER_POINT = 0.025, in units of 0.00001
SCORING_WEIGHT_PER_POINT == 2500

\* scoring::calculate_weight_from_points: (valid_count + 0.25 * star_count) * WEIGHT_PER_POINT,
\* in units of 0.00001
calculate_weight_from_points(valid, stars) ==
    ((4 * valid + stars) * SCORING_WEIGHT_PER_POINT) \div 4

\* scoring::calculate_net_points, in quarter points
calculate_net_points(valid, invalid, stars) ==
    LET penalty == IF invalid > valid THEN 4 * (invalid - valid) ELSE 0
        net == 4 * valid + stars - penalty
    IN  IF net > 0 THEN net ELSE 0

\* slice::sort_by on descending score (a stable sort): an element goes behind the elements of
\* larger score and behind the earlier elements of equal score
sort_by_score(entries) ==
    LET place(n) == 1 + Cardinality({m \in 1..Len(entries) : entries[m].score > entries[n].score})
                      + Cardinality({m \in 1..(n - 1) : entries[m].score = entries[n].score})
    IN  [p \in 1..Len(entries) |-> entries[CHOOSE n \in 1..Len(entries) : place(n) = p]]

\* scoring::rebuild_leaderboard: one entry per tracked hotkey from its balance, sorted by score
rebuild_leaderboard(store) ==
    LET entry(hotkey) ==
            LET balance == store.balance[hotkey]
            IN  [hotkey |-> hotkey,
                 score |-> calculate_weight_from_points(balance.valid_count, balance.star_count),
                 valid_issues |-> balance.valid_count,
                 invalid_issues |-> balance.invalid_count,
                 star_count |-> balance.star_count,
                 net_points |-> calculate_net_points(balance.valid_count, balance.invalid_count,
                                                     balance.star_count),
                 is_penalized |-> balance.is_penalized]
        entries == [n \in 1..Len(store.registered_hotkeys) |-> entry(store.registered_hotkeys[n])]
    IN  [store EXCEPT !.leaderboard = sort_by_score(entries)]

\* the total of the weights of a list
RECURSIVE total_weight(_)
total_weight(weights) ==
    IF weights = << >> THEN 0 ELSE Head(weights).score + total_weight(Tail(weights))

\* the weights of all entries with a positive score, penalized or not
weights_of_all_entries(entries) ==
    LET kept == SelectSeq(entries, LAMBDA e : e.score > 0)
        total == total_weight(kept)
    IN  sort_by_score([n \in 1..Len(kept) |->
                          [hotkey |-> kept[n].hotkey, score |-> kept[n].score,
                           total |-> IF total > 0 THEN total ELSE 1]])

\* scoring::calculate_weights_from_leaderboard: the entries that are not penalized and have a
\* positive score, each weight divided by their total when it is positive (the weight is kept
\* as the fraction score / total), sorted by descending weight
calculate_weights_from_leaderboard(entries) ==
    LET kept == SelectSeq(entries, LAMBDA e : ~e.is_penalized /\ e.score > 0)
        total == total_weight(kept)
        weights == [n \in 1..Len(kept) |->
                       [hotkey |-> kept[n].hotkey, score |-> kept[n].score,
                        total |-> IF total > 0 THEN total ELSE 1]]
    IN  sort_by_score(weights)

\* server::get_weights_handler, the sort: descending weight, stable
sort_by_weight(weights) ==
    LET place(n) == 1 + Cardinality({m \in 1..Len(weights) : weights[m].weight > weights[n].weight})
                      + Cardinality({m \in 1..(n - 1) : weights[m].weight = weights[n].weight})
    IN  [p \in 1..Len(weights) |-> weights[CHOOSE n \in 1..Len(weights) : place(n) = p]]

\* the total of the raw weights of a list
RECURSIVE total_raw_weight(_)
total_raw_weight(weights) ==
    IF weights = << >> THEN 0 ELSE Head(weights).weight + total_raw_weight(Tail(weights))

\* server::get_weights_handler on the cached rows of current_weights: rows with a positive
\* weight that are not penalized, each weight divided by their total when it is positive (kept
\* as the fraction weight / total), sorted by descending weight
get_weights_handler(current_weights) ==
    LET kept == SelectSeq(current_weights, LAMBDA w : w.weight > 0 /\ ~w.is_penalized)
        total == total_raw_weight(kept)
    IN  sort_by_weight([n \in 1..Len(kept) |->
                           [hotkey |-> kept[n].hotkey, weight |-> kept[n].weight,
                            total |-> IF total > 0 THEN total ELSE 1]])

\* handlers::handle_status: the weight reported for a hotkey
handle_status(store, hotkey) ==
    IF store.user[hotkey] = "NONE" THEN 0
    ELSE IF store.balance[hotkey].is_penalized THEN 0
    ELSE calculate_weight_from_points(store.balance[hotkey].valid_count,
                                      store.balance[hotkey].star_count)

\* validation::validate_issue
validate_issue(issue, expected_author) ==
    IF ~issue.is_closed THEN "Issue is not closed"
    ELSE IF ~issue.has_valid_label THEN "Issue missing 'valid' label"
    ELSE IF issue.has_invalid_label THEN "Issue has 'invalid' label"
    ELSE IF to_lowercase(issue.author) # to_lowercase(expected_author) THEN "Author mismatch"
    ELSE IF issue.claimed_by_hotkey # NoHotkey THEN "Issue already claimed"
    ELSE "valid"

\* a threshold that is half of the proposals, without the + 1
half(total) == total \div 2

\* consensus.rs: let threshold = (total / 2) + 1, in both consensus checks
threshold(total) == (total \div 2) + 1

\* validator ids used in consensus proposals
AllValidators == Validators \cup {"v3", "v4", "v5"}

\* issue numbers named in validity proposals
VotedIssues == {1, 2}

\* every submission pushed as a new entry
push_always(proposals, validator_id, issue_number, is_valid) ==
    Append(proposals, [validator_id |-> validator_id, issue_number |-> issue_number,
                       is_valid |-> is_valid])

\* consensus::propose_issue_validity: the first entry of (validator_id, issue_number) gets the
\* new verdict in place; without such an entry one is pushed
propose_issue_validity(proposals, validator_id, issue_number, is_valid) ==
    LET matching == {n \in 1..Len(proposals) : /\ proposals[n].validator_id = validator_id
                                               /\ proposals[n].issue_number = issue_number}
    IN  IF matching # {}
        THEN LET pos == CHOOSE n \in matching : \A m \in matching : n <= m
             IN  [proposals EXCEPT ![pos].is_valid = is_valid]
        ELSE Append(proposals, [validator_id |-> validator_id, issue_number |-> issue_number,
                                is_valid |-> is_valid])

\* consensus::check_issue_consensus
check_issue_consensus(proposals, issue_number) ==
    LET relevant == {n \in 1..Len(proposals) : proposals[n].issue_number = issue_number}
        total == Cardinality(relevant)
        valid_count == Cardinality({n \in relevant : proposals[n].is_valid})
        invalid_votes == total - valid_count
    IN  IF relevant = {} THEN "None"
        ELSE IF valid_count >= threshold(total) THEN "Some(true)"
        ELSE IF invalid_votes >= threshold(total) THEN "Some(false)"
        ELSE "None"

\* consensus::propose_sync_data: the validator's proposal replaces its earlier one in place
propose_sync_data(proposals, validator_id, issues) ==
    IF \E n \in 1..Len(proposals) : proposals[n].validator = validator_id
    THEN [n \in 1..Len(proposals) |->
             IF proposals[n].validator = validator_id
             THEN [validator |-> validator_id, issues |-> issues] ELSE proposals[n]]
    ELSE Append(proposals, [validator |-> validator_id, issues |-> issues])

\* grouping by the whole proposed list instead of its issue numbers
whole_list(issues) == issues

\* the sorted issue numbers of a proposed list
issue_nums(issues) == {i \in Issues : issues[i].present}

\* consensus::check_sync_consensus: the first proposal of a group of proposals with the same
\* issue numbers that more than half of the proposers made, if there is such a group
check_sync_consensus(proposals) ==
    LET count(n) == Cardinality({m \in 1..Len(proposals) :
                                    issue_nums(proposals[m].issues) = issue_nums(proposals[n].issues)})
        first(n) == \A m \in 1..(n - 1) :
                        issue_nums(proposals[m].issues) # issue_nums(proposals[n].issues)
        winners == {n \in 1..Len(proposals) : first(n) /\ count(n) >= threshold(Len(proposals))}
    IN  IF winners = {} THEN [found |-> FALSE, issues |-> EmptyKV.synced_issues]
        ELSE [found |-> TRUE,
              issues |-> proposals[CHOOSE n \in winners : \A m \in winners : n <= m].issues]

\* handlers::handle_sync_propose
store_proposal_unresolved(store, validator_id, issues) ==
    [store EXCEPT !.sync_proposals = propose_sync_data(@, validator_id, issues),
                  !.synced_issues = issues]

handle_sync_propose(store, validator_id, issues) ==
    LET proposed == [store EXCEPT !.sync_proposals = propose_sync_data(@, validator_id, issues)]
        consensus_issues == check_sync_consensus(proposed.sync_proposals)
    IN  IF ~consensus_issues.found THEN proposed
        ELSE [proposed EXCEPT !.synced_issues = consensus_issues.issues]


\* ------------------------------------------------------- wasm claim processing
\* the locals of one claim submission naming one issue
NewClaim(hotkey, github_username, i) ==
    [pc |-> "get_synced", hotkey |-> hotkey, github_username |-> github_username, issue |-> i,
     synced_issues |-> EmptyKV.synced_issues, balance |-> NoBalance,
     outcome |-> "pending", total_valid |-> 0, score |-> 0]

NoClaim == [NewClaim("hk1", "bob", 1) EXCEPT !.pc = "idle"]

\* a lookup that finds no record under any key
never_recorded(store, i) == FALSE

\* storage::is_issue_recorded: the value under the issue's key is not empty
is_issue_recorded(store, i) == store.issue[i].present

\* storage::record_valid_issue, the record it writes
ClaimedRecord(l) ==
    [present |-> TRUE, author |-> l.github_username, is_closed |-> TRUE,
     has_valid_label |-> TRUE, has_invalid_label |-> FALSE, claimed_by_hotkey |-> l.hotkey]

\* One host storage access of a claim: get_synced_issues, then process_claims with
\* is_issue_recorded, record_valid_issue (get, set), increment_valid_count (get, set) and the
\* closing get_user_balance.  The host's storage calls are taken to succeed.
ClaimStep(store, l) ==
    LET rejected(reason) == [kv |-> store, l |-> [l EXCEPT !.pc = "get_balance", !.outcome = reason]]
    IN  CASE l.pc = "get_synced" ->
               [kv |-> store, l |-> [l EXCEPT !.pc = "is_recorded",
                                              !.synced_issues = store.synced_issues]]
          [] l.pc = "is_recorded" ->
               IF is_issue_recorded(store, l.issue) THEN rejected("Issue already claimed")
               ELSE IF ~l.synced_issues[l.issue].present
               THEN rejected("Issue not found in synced data")
               ELSE LET verdict == validate_issue(l.synced_issues[l.issue], l.github_username)
                    IN  IF verdict = "valid"
                        THEN [kv |-> store, l |-> [l EXCEPT !.pc = "rv_get"]]
                        ELSE rejected(verdict)
          [] l.pc = "rv_get" ->
               IF store.issue[l.issue].present THEN rejected("Failed to record issue")
               ELSE [kv |-> store, l |-> [l EXCEPT !.pc = "rv_set"]]
          [] l.pc = "rv_set" ->
               [kv |-> [store EXCEPT !.issue[l.issue] = ClaimedRecord(l)],
                l |-> [l EXCEPT !.pc = "inc_get"]]
          [] l.pc = "inc_get" ->
               [kv |-> store, l |-> [l EXCEPT !.pc = "inc_set", !.balance = store.balance[l.hotkey]]]
          [] l.pc = "inc_set" ->
               [kv |-> [store EXCEPT !.balance[l.hotkey] = increment_valid_count(l.balance)],
                l |-> [l EXCEPT !.pc = "get_balance", !.outcome = "claimed"]]
          [] l.pc = "get_balance" ->
               [kv |-> store,
                l |-> [l EXCEPT !.pc = "done",
                                !.total_valid = store.balance[l.hotkey].valid_count,
                                !.score = calculate_weight_from_points(
                                              store.balance[l.hotkey].valid_count,
                                              store.balance[l.hotkey].star_count)]]
          [] OTHER -> [kv |-> store, l |-> l]

ClaimPcs == {"get_synced", "is_recorded", "rv_get", "rv_set", "inc_get", "inc_set", "get_balance"}

RECURSIVE RunClaim(_, _)
RunClaim(store, l) ==
    IF l.pc = "done" THEN [kv |-> store, l |-> l]
    ELSE LET s == ClaimStep(store, l) IN RunClaim(s.kv, s.l)

\* handlers::handle_claim for an authenticated request, run to its end
\* the leaderboard is rebuilt when the submission claimed an issue
wasm_handle_claim(store, hotkey, github_username, i) ==
    LET r == RunClaim(store, NewClaim(hotkey, github_username, i))
    IN  IF r.l.outcome = "claimed" THEN [r EXCEPT !.kv = rebuild_leaderboard(@)] ELSE r

\* the host storage call of handle_claim that may fail: the write of the issue record
\* (host_storage_set in record_valid_issue), the read of the balance (get_user_balance falls
\* back to the default balance) or the write of the balance (store_user_balance drops the error)
ClaimFaults == {"none", "rv_set", "inc_get", "inc_set"}

\* one storage access of the claim l when the call named by failAt returns an error
ClaimStepFailing(store, l, failAt) ==
    IF l.pc # failAt THEN ClaimStep(store, l)
    ELSE CASE l.pc = "rv_set" ->
                [kv |-> store,
                 l |-> [l EXCEPT !.pc = "get_balance", !.outcome = "Failed to record issue"]]
           [] l.pc = "inc_get" ->
                [kv |-> store, l |-> [l EXCEPT !.pc = "inc_set", !.balance = NoBalance]]
           [] l.pc = "inc_set" ->
                [kv |-> store, l |-> [l EXCEPT !.pc = "get_balance", !.outcome = "claimed"]]
           [] OTHER -> ClaimStep(store, l)

RECURSIVE RunClaimFailing(_, _, _)
RunClaimFailing(store, l, failAt) ==
    IF l.pc = "done" THEN [kv |-> store, l |-> l]
    ELSE LET s == ClaimStepFailing(store, l, failAt) IN RunClaimFailing(s.kv, s.l, failAt)

\* handlers::handle_claim run to its end when one host storage call fails
handle_claim_failing(store, hotkey, github_username, i, failAt) ==
    LET r == RunClaimFailing(store, NewClaim(hotkey, github_username, i), failAt)
    IN  IF r.l.outcome = "claimed" THEN [r EXCEPT !.kv = rebuild_leaderboard(@)] ELSE r

\* BountyChallengeWasm::evaluate: the hotkey must be registered under the submitted username
evaluate(store, hotkey, github_username, i) ==
    LET reg == store.user[hotkey]
        failure(msg) == [kv |-> store, l |-> [NoClaim EXCEPT !.pc = "done", !.outcome = msg]]
    IN  IF reg = "NONE" THEN failure("hotkey not registered")
        ELSE IF to_lowercase(reg) # to_lowercase(github_username)
        THEN failure("github username mismatch with registration")
        ELSE wasm_handle_claim(store, hotkey, github_username, i)

\* ------------------------------------------------- whole claim submissions
\* the repository whose issues the store holds
REPO_OWNER == "PlatformNetwork"
REPO_NAME == "bounty-challenge"

\* validation::validate_submission
validate_submission(submission) ==
    IF submission.hotkey = "" THEN FALSE
    ELSE IF submission.github_username = "" THEN FALSE
    ELSE IF submission.issue_numbers = << >> THEN FALSE
    ELSE IF submission.signature = "" THEN FALSE
    ELSE IF submission.repo_owner = "" \/ submission.repo_name = "" THEN FALSE
    ELSE TRUE

RECURSIVE RunIssue(_, _)
\* the body of process_claims' loop for the issue l.issue, run to its end
RunIssue(store, l) ==
    IF l.pc = "get_balance" THEN [kv |-> store, l |-> l]
    ELSE LET s == ClaimStep(store, l) IN RunIssue(s.kv, s.l)

RECURSIVE process_issues(_, _, _)
\* process_claims' loop over issue_numbers: the claimed and the rejected lists.  An issue
\* of another repository has no record and no synced entry in the store.
process_issues(store, l, issue_numbers) ==
    IF issue_numbers = << >> THEN [kv |-> store, claimed |-> << >>, rejected |-> << >>]
    ELSE LET i == Head(issue_numbers)
             r == IF l.repo_owner = REPO_OWNER /\ l.repo_name = REPO_NAME
                  THEN RunIssue(store, [l EXCEPT !.pc = "is_recorded", !.issue = i])
                  ELSE [kv |-> store, l |-> [l EXCEPT !.outcome = "Issue not found in synced data"]]
             rest == process_issues(r.kv, l, Tail(issue_numbers))
         IN  [kv |-> rest.kv,
              claimed |-> IF r.l.outcome = "claimed" THEN <<i>> \o rest.claimed
                          ELSE rest.claimed,
              rejected |-> IF r.l.outcome = "claimed" THEN rest.rejected
                           ELSE <<[issue_number |-> i, reason |-> r.l.outcome]>> \o rest.rejected]

\* validation::process_claims on the synced issues read by its caller
process_claims(store, submission) ==
    LET l == [NewClaim(submission.hotkey, submission.github_username, 0)
                 EXCEPT !.synced_issues = store.synced_issues] @@
             [repo_owner |-> submission.repo_owner, repo_name |-> submission.repo_name]
        r == process_issues(store, l, submission.issue_numbers)
        balance == r.kv.balance[submission.hotkey]
    IN  [kv |-> r.kv, claimed |-> r.claimed, rejected |-> r.rejected,
         total_valid |-> balance.valid_count,
         score |-> calculate_weight_from_points(balance.valid_count, balance.star_count)]

\* the response to a submission refused before process_claims
refused(store, status) ==
    [kv |-> store, status |-> status, claimed |-> << >>, rejected |-> << >>,
     total_valid |-> 0, score |-> 0]

\* handlers::handle_claim for an authenticated request carrying a whole submission
handle_claim_submission(store, submission) ==
    IF ~validate_submission(submission) THEN refused(store, "bad_request")
    ELSE LET result == process_claims(store, submission)
         IN  [result EXCEPT !.kv = IF result.claimed # << >> THEN rebuild_leaderboard(@) ELSE @]
             @@ [status |-> "ok"]

\* BountyChallengeWasm::evaluate on a whole submission
evaluate_submission(store, submission) ==
    IF submission.hotkey = "" THEN refused(store, "missing hotkey")
    ELSE IF submission.github_username = "" THEN refused(store, "missing github_username")
    ELSE IF submission.issue_numbers = << >> THEN refused(store, "no issues to claim")
    ELSE IF submission.signature = "" THEN refused(store, "missing signature")
    ELSE IF store.user[submission.hotkey] = "NONE" THEN refused(store, "hotkey not registered")
    ELSE IF to_lowercase(store.user[submission.hotkey]) # to_lowercase(submission.github_username)
    THEN refused(store, "github username mismatch with registration")
    ELSE LET result == process_claims(store, submission)
         IN  [result EXCEPT !.kv = IF result.claimed # << >> THEN rebuild_leaderboard(@) ELSE @]
             @@ [status |-> "success"]

\* ------------------------------------------------- the wasm routes
\* routes::get_route_definitions: the routes declared with requires_auth: true
AuthRoutes ==
    {<<"POST", "/register">>, <<"POST", "/claim">>, <<"POST", "/invalid">>,
     <<"POST", "/sync/propose">>, <<"POST", "/issue/propose">>, <<"POST", "/config/timeout">>}

\* routes declared with requires_auth: false (two of them) and a path that is not declared
OpenRoutes == {<<"GET", "/sync/consensus">>, <<"GET", "/config/timeout">>, <<"GET", "/nowhere">>}

\* a request whose auth_hotkey is present, empty or not
has_auth_hotkey(request) == request.auth_hotkey # << >>

\* handlers::is_authenticated: auth_hotkey is Some and not empty
is_authenticated(request) == request.auth_hotkey # << >> /\ request.auth_hotkey[1] # ""

\* the answer of a handler: the store it leaves and the status
RouteResponse(store, status) == [kv |-> store, status |-> status]

\* routes::handle_route_request with the handlers it dispatches to; a body that is too
\* large or does not deserialize is one with well_formed = FALSE
handle_route_request(store, request) ==
    LET route == <<request.method, request.path>>
        body == request.body
        hotkey == request.auth_hotkey[1]
        registered == wasm_register_user(store, body.github_username, hotkey)
        claimed == handle_claim_submission(store,
                       [hotkey |-> body.hotkey, github_username |-> body.github_username,
                        issue_numbers |-> <<body.issue_number>>, signature |-> "sig",
                        repo_owner |-> REPO_OWNER, repo_name |-> REPO_NAME])
    IN  CASE route = <<"POST", "/register">> ->
               IF ~is_authenticated(request) THEN RouteResponse(store, 401)
               ELSE IF ~body.well_formed THEN RouteResponse(store, 400)
               ELSE RouteResponse(IF registered.result
                                  THEN ensure_hotkey_tracked(registered.kv, hotkey)
                                  ELSE registered.kv, 200)
          [] route = <<"POST", "/claim">> ->
               IF ~is_authenticated(request) THEN RouteResponse(store, 401)
               ELSE IF ~body.well_formed THEN RouteResponse(store, 400)
               ELSE RouteResponse(claimed.kv, IF claimed.status = "ok" THEN 200 ELSE 400)
          [] route = <<"POST", "/invalid">> ->
               IF ~is_authenticated(request) THEN RouteResponse(store, 401)
               ELSE IF ~body.well_formed THEN RouteResponse(store, 400)
               ELSE RouteResponse(rebuild_leaderboard(
                                      wasm_record_invalid_issue(store, body.issue_number,
                                                                body.github_username)), 200)
          [] route = <<"POST", "/sync/propose">> ->
               IF ~is_authenticated(request) THEN RouteResponse(store, 401)
               ELSE IF ~body.well_formed THEN RouteResponse(store, 400)
               ELSE RouteResponse(handle_sync_propose(store, body.validator_id, body.issues),
                                  200)
          [] route = <<"POST", "/issue/propose">> ->
               IF ~is_authenticated(request) THEN RouteResponse(store, 401)
               ELSE IF ~body.well_formed THEN RouteResponse(store, 400)
               ELSE RouteResponse([store EXCEPT !.issue_validity_proposals =
                                       propose_issue_validity(@, body.validator_id,
                                                              body.issue_number,
                                                              body.is_valid)], 200)
          [] route = <<"POST", "/config/timeout">> ->
               IF ~is_authenticated(request) THEN RouteResponse(store, 401)
               ELSE IF ~body.well_formed THEN RouteResponse(store, 400)
               ELSE RouteResponse([store EXCEPT !.timeout_config = body.config], 200)
          [] route = <<"GET", "/sync/consensus">> -> RouteResponse(store, 200)
          [] route = <<"GET", "/config/timeout">> -> RouteResponse(store, 200)
          [] OTHER -> RouteResponse(store, 404)

\* ------------------------------------------------- sequential requests
NoLast == [op |-> "none", issue |-> 0, result |-> "Ok", change |-> "None"]

NoPass == [phase |-> "idle", snaps |-> [seen |-> {}, labels |-> [i \in Issues |-> {}],
                                        state |-> [i \in Issues |-> "open"]],
           start |-> EmptyDB, attempts |-> 0]

EverAfter(ever, table) ==
    [i \in Issues |-> ever[i] \cup ({table[n].hotkey : n \in RowsOf(table, i)} \ {NoHotkey})]

SeenAfter(seen, db) ==
    {i \in Issues :
        /\ HasRow(db.resolved_issues, i)
        /\ \/ i \in seen
           \/ /\ ~HasRow(resolved_issues, i)
              /\ get_hotkey_by_github(github_registrations, AuthorOf(i)) = NoHotkey}

SetDB(db) ==
    /\ github_registrations' = db.github_registrations
    /\ github_issues' = db.github_issues
    /\ resolved_issues' = db.resolved_issues
    /\ invalid_issues' = db.invalid_issues
    /\ github_stars' = db.github_stars
    /\ credited_ever' = EverAfter(credited_ever, db.resolved_issues)
    /\ seen_unregistered' = SeenAfter(seen_unregistered, db)
    /\ UNCHANGED <<started_from, kv, wproc, bonusVars>>

Recorded(op, i, result, change) ==
    last' = [op |-> op, issue |-> i, result |-> result, change |-> change]

\* a sync or claim request was handled
Handled(op, i, result, change) ==
    /\ ncalls < MaxCalls
    /\ ncalls' = ncalls + 1
    /\ UNCHANGED nregs
    /\ Recorded(op, i, result, change)

\* a registration request was handled
Registered(op, result) ==
    /\ nregs < MaxRegs
    /\ nregs' = nregs + 1
    /\ UNCHANGED ncalls
    /\ Recorded(op, 0, result, "None")

\* a claim submission was handled: its outcome, and the total_valid and score of its result
HandledClaim(op, l) ==
    /\ ncalls < MaxCalls
    /\ ncalls' = ncalls + 1
    /\ UNCHANGED nregs
    /\ last' = [op |-> op, issue |-> l.issue, result |-> l.outcome, change |-> "None",
                hotkey |-> l.hotkey, total_valid |-> l.total_valid, score |-> l.score]

Init ==
    /\ github_registrations = EmptyDB.github_registrations
    /\ github_issues = EmptyDB.github_issues
    /\ resolved_issues = << >>
    /\ invalid_issues = << >>
    /\ github_stars = {}
    /\ proc = [p \in Procs |-> Idle]
    /\ last = NoLast
    /\ ncalls = 0
    /\ nregs = 0
    /\ credited_ever = [i \in Issues |-> {}]
    /\ seen_unregistered = {}
    /\ started_from = [p \in Procs |-> EmptyDB]
    /\ pass = NoPass
    /\ kv = EmptyKV
    /\ wproc = [p \in Procs |-> NoClaim]
    /\ admin_bonuses = << >>
    /\ now = 0
    /\ weights_cache = refresh_weights_cache(EmptyDB, << >>, 0)

\* the challenge's register action (BountyChallenge::handle_register)
ChallengeRegister ==
    \E login \in Logins, h \in Hotkeys, failAt \in {"none", "delete", "insert"} :
        /\ pass.phase = "idle"
        /\ SetDB([DB EXCEPT !.github_registrations = register_user(@, login, h, failAt)])
        /\ Registered("register", IF failAt = "none" THEN "Ok" ELSE "Err")
        /\ UNCHANGED <<proc, pass>>

\* server::register_handler: the two checks, each skipped when its lookup fails, then
\* PgStorage::register_user
register_handler(reg, login, h, failAt, skip1, skip2) ==
    LET ok1 == skip1 \/ get_hotkey_by_github(reg, login) \in {NoHotkey, h}
        ok2 == skip2 \/ get_github_by_hotkey(reg, h) \in {"NONE", to_lowercase(login)}
    IN  [reg |-> IF ok1 /\ ok2 THEN register_user(reg, login, h, failAt) ELSE reg,
         result |-> IF ok1 /\ ok2 /\ failAt = "none" THEN "Ok" ELSE "Err"]

\* POST /register of the server (register_handler); a failed lookup skips its check
ServerRegister ==
    \E login \in Logins, h \in Hotkeys, failAt \in {"none", "delete", "insert"},
       skip1 \in BOOLEAN, skip2 \in BOOLEAN :
        LET r == register_handler(github_registrations, login, h, failAt, skip1, skip2)
        IN  /\ pass.phase = "idle"
            /\ SetDB([DB EXCEPT !.github_registrations = r.reg])
            /\ Registered("register_handler", r.result)
            /\ UNCHANGED <<proc, pass>>

\* one upsert_issue call run to its end by a single sync process
UpsertIssue ==
    \E i \in Issues, labels \in SUBSET LabelNames, state \in IssueStates,
       failAt \in FailPoints, lookupFail \in BOOLEAN :
        LET r == upsert_issue(DB, i, labels, state, failAt, lookupFail)
        IN  /\ pass.phase = "idle"
            /\ SetDB(r.db)
            /\ Handled("upsert", i, r.l.result, r.l.change)
            /\ UNCHANGED <<proc, pass>>

\* the challenge's claim action for one issue
ChallengeClaim ==
    \E i \in Issues, login \in Logins, labels \in SUBSET LabelNames, state \in IssueStates,
       fail \in BOOLEAN :
        /\ pass.phase = "idle"
        /\ SetDB(handle_claim(DB, i, login, labels, state, fail))
        /\ Handled("claim", i, IF fail THEN "Err" ELSE "Ok", "None")
        /\ UNCHANGED <<proc, pass>>

NextSeq == ChallengeRegister \/ ServerRegister \/ UpsertIssue \/ ChallengeClaim

SpecSeq == Init /\ [][NextSeq]_vars

\* ------------------------------------------------- a sync pass and its retries
\* the caller fetches the repository's issue list and starts a pass of sync_repo
BeginPass ==
    \E snaps \in FetchedLists :
        /\ pass.phase = "idle"
        /\ ncalls < MaxCalls
        /\ ncalls' = ncalls + 1
        /\ pass' = [phase |-> "retrying", snaps |-> snaps, start |-> DB, attempts |-> 0]
        /\ UNCHANGED <<pgTables, bonusVars, kv, wproc, proc, last, nregs, credited_ever, seen_unregistered, started_from>>

\* one run of sync_repo with the fetched list; an error leaves the pass to be re-run
AttemptPass ==
    \E failIssue \in Issues, failAt \in PassFailPoints, lookupFail \in BOOLEAN :
        LET r == sync_repo(DB, pass.snaps, failIssue, failAt, lookupFail)
        IN  /\ pass.phase = "retrying"
            /\ pass.attempts < MaxAttempts
            /\ SetDB(r.db)
            /\ pass' = [pass EXCEPT !.phase = IF r.ok THEN "done" ELSE "retrying",
                                    !.attempts = @ + 1]
            /\ Recorded("sync", 0, IF r.ok THEN "Ok" ELSE "Err", "None")
            /\ UNCHANGED <<proc, ncalls, nregs>>

\* the caller is done with the pass
EndPass ==
    /\ pass.phase = "done"
    /\ pass' = NoPass
    /\ UNCHANGED <<pgTables, bonusVars, kv, wproc, proc, last, ncalls, nregs, credited_ever, seen_unregistered, started_from>>

NextSync == ChallengeRegister \/ BeginPass \/ AttemptPass \/ EndPass

SpecSync == Init /\ [][NextSync]_vars

\* one pass of the server's sync_repo over a repository, fetch included
FetchAndSync ==
    \E listing \in FetchedLists, outcome \in PageOutcomes :
        LET r == fetch_and_sync_repo(DB, listing, 1, outcome)
        IN  /\ pass.phase = "idle"
            /\ ncalls < MaxCalls
            /\ ncalls' = ncalls + 1
            /\ SetDB(r.db)
            /\ last' = [op |-> "fetch_and_sync", listing |-> listing, outcome |-> outcome,
                        result |-> IF r.ok THEN "Ok" ELSE "Err", before |-> github_issues]
            /\ UNCHANGED <<proc, pass, nregs>>

NextFetch == ChallengeRegister \/ FetchAndSync

SpecFetch == Init /\ [][NextFetch]_vars

\* ------------------------------------------------- concurrent sync processes
\* process p enters upsert_issue with the snapshot it fetched
StartUpsert(p) ==
    \E i \in Issues, labels \in SUBSET LabelNames, state \in IssueStates :
        /\ proc[p].pc = "idle"
        /\ ncalls < MaxSyncCalls
        /\ ncalls' = ncalls + 1
        /\ proc' = [proc EXCEPT ![p] = NewCall(i, labels, state)]
        /\ started_from' = [started_from EXCEPT ![p] = DB]
        /\ UNCHANGED <<pgTables, bonusVars, kv, wproc, last, nregs, credited_ever, seen_unregistered, pass>>

\* process p executes its next storage statement, which may fail
StepUpsert(p) ==
    \E fail \in BOOLEAN :
        LET s == UpsertStep(DB, proc[p], fail)
        IN  /\ proc[p].pc \in UpsertPcs
            /\ SetDB(s.db)
            /\ proc' = [proc EXCEPT ![p] = s.l]
            /\ UNCHANGED <<last, ncalls, nregs, pass>>

\* upsert_issue returns to sync_repo
ReturnUpsert(p) ==
    /\ proc[p].pc = "done"
    /\ proc' = [proc EXCEPT ![p] = Idle]
    /\ UNCHANGED <<pgTables, bonusVars, kv, wproc, last, ncalls, nregs, credited_ever, seen_unregistered, started_from, pass>>

\* a registration arrives while the sync processes run
PgRegister == nregs < MaxPgRegs /\ ChallengeRegister

NextPg ==
    \/ PgRegister
    \/ \E p \in Procs : StartUpsert(p)
    \/ \E p \in Procs : StepUpsert(p)
    \/ \E p \in Procs : ReturnUpsert(p)

SpecPg == Init /\ [][NextPg]_vars


\* ------------------------------------------------- wasm requests, one at a time
pgState == <<pgTables, bonusVars, proc, credited_ever, seen_unregistered, started_from, pass>>

\* POST /register (handlers::handle_register); the hotkey is the authenticated one
WasmRegister ==
    \E login \in Logins, auth_hotkey \in Hotkeys :
        LET r == wasm_register_user(kv, login, auth_hotkey)
        IN  /\ kv' = IF r.result THEN ensure_hotkey_tracked(r.kv, auth_hotkey) ELSE r.kv
            /\ Registered("wasm_register", IF r.result THEN "Ok" ELSE "Err")
            /\ UNCHANGED <<pgState, wproc>>

\* POST /sync/propose (handlers::handle_sync_propose)
WasmSyncPropose ==
    \E validator_id \in Validators, issues \in IssueLists :
        /\ kv' = handle_sync_propose(kv, validator_id, issues)
        /\ Registered("sync_propose", "Ok")
        /\ UNCHANGED <<pgState, wproc>>

\* POST /claim (handlers::handle_claim); hotkey and username come from the request body
WasmClaim ==
    \E hotkey \in Hotkeys, login \in Logins, i \in Issues :
        LET r == wasm_handle_claim(kv, hotkey, login, i)
        IN  /\ kv' = r.kv
            /\ HandledClaim("wasm_claim", [r.l EXCEPT !.issue = i, !.hotkey = hotkey])
            /\ UNCHANGED <<pgState, wproc>>

\* evaluate of a submission naming one issue
WasmEvaluate ==
    \E hotkey \in Hotkeys, login \in Logins, i \in Issues :
        LET r == evaluate(kv, hotkey, login, i)
        IN  /\ kv' = r.kv
            /\ HandledClaim("evaluate", [r.l EXCEPT !.issue = i, !.hotkey = hotkey])
            /\ UNCHANGED <<pgState, wproc>>

\* POST /invalid (handlers::handle_invalid); issue and username come from the request body
WasmInvalid ==
    \E i \in Issues, login \in Logins :
        /\ kv' = rebuild_leaderboard(wasm_record_invalid_issue(kv, i, login))
        /\ Handled("wasm_invalid", i, "Ok", "None")
        /\ UNCHANGED <<pgState, wproc>>

NextWasm == WasmRegister \/ WasmSyncPropose \/ WasmClaim \/ WasmEvaluate \/ WasmInvalid

SpecWasm == Init /\ [][NextWasm]_vars

\* POST /claim while a host storage call may fail
ClaimWithFault ==
    \E hotkey \in Hotkeys, login \in Logins, i \in Issues, failAt \in ClaimFaults :
        LET r == handle_claim_failing(kv, hotkey, login, i, failAt)
        IN  /\ kv' = r.kv
            /\ HandledClaim("wasm_claim", [r.l EXCEPT !.issue = i, !.hotkey = hotkey])
            /\ UNCHANGED <<pgState, wproc>>

NextClaimFaults == WasmRegister \/ WasmSyncPropose \/ ClaimWithFault

SpecClaimFaults == Init /\ [][NextClaimFaults]_vars

\* ------------------------------------------------- interleaved wasm claims
\* a claim submission arrives and starts being processed
StartClaim(p) ==
    \E hotkey \in Hotkeys, login \in Logins, i \in Issues :
        /\ wproc[p].pc = "idle"
        /\ ncalls < MaxSyncCalls
        /\ ncalls' = ncalls + 1
        /\ wproc' = [wproc EXCEPT ![p] = NewClaim(hotkey, login, i)]
        /\ UNCHANGED <<pgState, kv, last, nregs>>

\* the submission's processing does its next host storage access
StepClaim(p) ==
    LET s == ClaimStep(kv, wproc[p])
    IN  /\ wproc[p].pc \in ClaimPcs
        /\ kv' = s.kv
        /\ wproc' = [wproc EXCEPT ![p] = s.l]
        /\ UNCHANGED <<pgState, last, ncalls, nregs>>

\* the claim result is returned
ReturnClaim(p) ==
    /\ wproc[p].pc = "done"
    /\ wproc' = [wproc EXCEPT ![p] = NoClaim]
    /\ kv' = IF wproc[p].outcome = "claimed" THEN rebuild_leaderboard(kv) ELSE kv
    /\ UNCHANGED <<pgState, last, ncalls, nregs>>

NextClaims ==
    \/ WasmRegister
    \/ WasmSyncPropose
    \/ \E p \in Procs : StartClaim(p)
    \/ \E p \in Procs : StepClaim(p)
    \/ \E p \in Procs : ReturnClaim(p)

SpecClaims == Init /\ [][NextClaims]_vars


\* ------------------------------------------------- issue validity proposals
\* POST /issue/propose (handlers::handle_issue_propose) by one of the validators, on one of
\* the issues
IssuePropose(validators, issues) ==
    \E validator_id \in validators, i \in issues, is_valid \in BOOLEAN :
        /\ kv' = [kv EXCEPT !.issue_validity_proposals =
                                propose_issue_validity(@, validator_id, i, is_valid)]
        /\ Recorded("issue_propose", i, "Ok",
                    IF \E n \in 1..Len(kv.issue_validity_proposals) :
                           /\ kv.issue_validity_proposals[n].validator_id = validator_id
                           /\ kv.issue_validity_proposals[n].issue_number = i
                    THEN "Updated" ELSE "Pushed")
        /\ UNCHANGED <<pgState, wproc, ncalls, nregs>>

\* POST /issue/consensus (handlers::handle_issue_consensus)
IssueConsensus(issues) ==
    \E i \in issues :
        /\ Recorded("issue_consensus", i,
                    check_issue_consensus(kv.issue_validity_proposals, i), "None")
        /\ UNCHANGED <<pgState, kv, wproc, ncalls, nregs>>

\* five validators vote on one issue
NextVotes == IssuePropose(AllValidators, {1}) \/ IssueConsensus({1})

SpecVotes == Init /\ [][NextVotes]_vars

\* two validators vote on two issues
NextVoteKeys == IssuePropose(Validators, VotedIssues) \/ IssueConsensus(VotedIssues)

SpecVoteKeys == Init /\ [][NextVoteKeys]_vars


\* ------------------------------------------------- sync snapshot proposals
\* validator ids used in snapshot proposals
SyncValidators == Validators \cup {"v3"}

\* POST /sync/propose (handlers::handle_sync_propose) by one of the validators
SyncPropose(validators) ==
    \E validator_id \in validators, issues \in IssueLists :
        /\ kv' = handle_sync_propose(kv, validator_id, issues)
        /\ Recorded("sync_propose", 0, "Ok", "None")
        /\ UNCHANGED <<pgState, wproc, ncalls, nregs>>

\* GET /sync/consensus (handlers::handle_sync_consensus)
SyncConsensus ==
    /\ Recorded("sync_consensus", 0,
                IF check_sync_consensus(kv.sync_proposals).found THEN "Some" ELSE "None", "None")
    /\ UNCHANGED <<pgState, kv, wproc, ncalls, nregs>>

NextSyncVotes == SyncPropose(SyncValidators) \/ SyncConsensus

SpecSyncVotes == Init /\ [][NextSyncVotes]_vars


\* both proposal routes, two validators
NextQuorum ==
    \/ IssuePropose(Validators, {1})
    \/ IssueConsensus({1})
    \/ SyncPropose(Validators)
    \/ SyncConsensus

SpecQuorum == Init /\ [][NextQuorum]_vars


\* ------------------------------------------- snapshot proposals for two repositories
\* the repositories validators report on
Repos == {"repo1", "repo2"}

\* the issue lists a validator may propose for repository r: every record names r
RepoLists(r) ==
    {[i \in Issues |-> IF issues[i].present THEN issues[i] @@ ("repo_name" :> r) ELSE issues[i]] :
        issues \in IssueLists}

\* POST /sync/propose with the issue list of one repository
RepoSyncPropose ==
    \E validator_id \in Validators, r \in Repos :
        \E issues \in RepoLists(r) :
            /\ kv' = handle_sync_propose(kv, validator_id, issues)
            /\ Recorded("sync_propose", 0, "Ok", "None")
            /\ UNCHANGED <<pgState, wproc, ncalls, nregs>>

NextRepos == RepoSyncPropose \/ SyncConsensus

SpecRepos == Init /\ [][NextRepos]_vars


\* ------------------------------------------------- registration requests
\* POST /register of the server, any number of times
ServerRegisterRequest ==
    \E login \in Logins, h \in Hotkeys, failAt \in {"none", "delete", "insert"},
       skip1 \in BOOLEAN, skip2 \in BOOLEAN :
        LET r == register_handler(github_registrations, login, h, failAt, skip1, skip2)
        IN  /\ SetDB([DB EXCEPT !.github_registrations = r.reg])
            /\ Recorded("register_handler", 0, r.result, "None")
            /\ UNCHANGED <<proc, pass, ncalls, nregs>>

\* POST /register of the wasm module (handlers::handle_register), any number of times
WasmRegisterRequest ==
    \E login \in Logins, auth_hotkey \in Hotkeys :
        LET r == wasm_register_user(kv, login, auth_hotkey)
        IN  /\ kv' = IF r.result THEN ensure_hotkey_tracked(r.kv, auth_hotkey) ELSE r.kv
            /\ Recorded("wasm_register", 0, IF r.result THEN "Ok" ELSE "Err", "None")
            /\ UNCHANGED <<pgState, wproc, ncalls, nregs>>

NextRegs == ServerRegisterRequest \/ WasmRegisterRequest

SpecRegs == Init /\ [][NextRegs]_vars


\* the three registering entry points
NextBind == ChallengeRegister \/ ServerRegister \/ WasmRegister

SpecBind == Init /\ [][NextBind]_vars


\* ------------------------------------------------------------- weights
\* calculate_user_weight for an account with the given numbers of credit rows, stars and
\* penalty rows
CalculateUserWeight ==
    \E valid \in 0..MaxValid, stars \in 0..MaxStars, penalties \in 0..MaxPenalties :
        /\ last' = [op |-> "calculate_user_weight", valid |-> valid, stars |-> stars,
                    penalties |-> penalties, weight |-> user_weight(valid, stars, penalties)]
        /\ UNCHANGED <<pgState, kv, wproc, ncalls, nregs>>

NextWeight == CalculateUserWeight

SpecWeight == Init /\ [][NextWeight]_vars


\* ------------------------------------------------- wasm weights
\* GET /status (handlers::handle_status)
WasmStatus ==
    \E hotkey \in Hotkeys :
        /\ last' = [op |-> "status", hotkey |-> hotkey, weight |-> handle_status(kv, hotkey)]
        /\ UNCHANGED <<pgState, kv, wproc, ncalls, nregs>>

\* BountyChallengeWasm::get_weights
WasmGetWeights ==
    /\ last' = [op |-> "get_weights",
                weights |-> calculate_weights_from_leaderboard(kv.leaderboard)]
    /\ UNCHANGED <<pgState, kv, wproc, ncalls, nregs>>

NextScore ==
    \/ WasmRegister
    \/ WasmSyncPropose
    \/ WasmClaim
    \/ WasmEvaluate
    \/ WasmInvalid
    \/ WasmStatus
    \/ WasmGetWeights

SpecScore == Init /\ [][NextScore]_vars


\* the balances an account can have after at most k count increments
RECURSIVE BalancesAfter(_)
BalancesAfter(k) ==
    IF k = 0 THEN {NoBalance}
    ELSE LET earlier == BalancesAfter(k - 1)
         IN  earlier \cup {increment_valid_count(b) : b \in earlier}
                     \cup {increment_invalid_count(b) : b \in earlier}

\* the store of two tracked accounts with the given balances, leaderboard rebuilt
StoreWith(balances) ==
    rebuild_leaderboard([EmptyKV EXCEPT !.balance = balances,
                                        !.registered_hotkeys = <<"hk1", "hk2">>])

\* BountyChallengeWasm::get_weights on the leaderboard of two accounts
WeighBalances ==
    \E balances \in [Hotkeys -> BalancesAfter(MaxIncrements)] :
        /\ last' = [op |-> "get_weights", balances |-> balances,
                    weights |-> calculate_weights_from_leaderboard(StoreWith(balances).leaderboard)]
        /\ UNCHANGED <<pgState, kv, wproc, ncalls, nregs>>

\* the rows the server's weight cache may hold for the two accounts, in any order
CurrentWeights ==
    LET rows(h) == {[hotkey |-> h, weight |-> user_weight(valid, 0, penalties), is_penalized |-> pen] :
                       valid \in 0..MaxIncrements, penalties \in 0..1, pen \in BOOLEAN}
    IN  {<< >>} \cup UNION {{<<r>> : r \in rows(h)} : h \in Hotkeys}
        \cup {<<r1, r2>> : r1 \in rows("hk1"), r2 \in rows("hk2")}
        \cup {<<r2, r1>> : r1 \in rows("hk1"), r2 \in rows("hk2")}

\* GET /get_weights of the server (get_weights_handler) on a cached snapshot
GetWeightsHandler ==
    \E current_weights \in CurrentWeights :
        /\ last' = [op |-> "get_weights_handler", current_weights |-> current_weights,
                    weights |-> get_weights_handler(current_weights)]
        /\ UNCHANGED <<pgState, kv, wproc, ncalls, nregs>>

NextWeigh == WeighBalances \/ GetWeightsHandler

SpecWeigh == Init /\ [][NextWeigh]_vars

\* ------------------------------------------------- the ledger's writers
\* POST /invalid of the server (invalid_handler), timestamp and signature accepted
InvalidRequest ==
    \E i \in Issues, login \in Logins, fail \in BOOLEAN :
        /\ pass.phase = "idle"
        /\ SetDB(record_invalid_issue(DB, i, login, fail))
        /\ Handled("invalid", i, IF fail THEN "Err" ELSE "Ok", "None")
        /\ UNCHANGED <<proc, pass>>

NextLedger == ChallengeRegister \/ UpsertIssue \/ ChallengeClaim \/ InvalidRequest

SpecLedger == Init /\ [][NextLedger]_vars

\* ------------------------------------------------- deletion markers
\* PgStorage::mark_deleted_issues with a list of seen issue numbers
MarkDeletedIssues ==
    \E seen \in SUBSET Issues :
        LET issues == mark_deleted_issues(github_issues, seen)
        IN  /\ pass.phase = "idle"
            /\ SetDB([DB EXCEPT !.github_issues = issues])
            /\ last' = [op |-> "mark_deleted_issues", seen |-> seen,
                        result |-> Cardinality({i \in Issues : issues[i] # github_issues[i]})]
            /\ UNCHANGED <<proc, pass, ncalls, nregs>>

\* PgStorage::restore_issue on one issue
RestoreIssue ==
    \E i \in Issues :
        LET issues == restore_issue(github_issues, i)
        IN  /\ pass.phase = "idle"
            /\ SetDB([DB EXCEPT !.github_issues = issues])
            /\ last' = [op |-> "restore_issue", issue |-> i,
                        restored |-> issues # github_issues]
            /\ UNCHANGED <<proc, pass, ncalls, nregs>>

NextDeleted ==
    \/ PgRegister
    \/ UpsertIssue
    \/ MarkDeletedIssues
    \/ RestoreIssue

SpecDeleted == Init /\ [][NextDeleted]_vars

\* ------------------------------------------------- wasm claim submissions
\* the submissions with every field filled in
FullSubmissions ==
    [hotkey : Hotkeys, github_username : Logins,
     issue_numbers : {<<i>> : i \in Issues} \cup {<<i, j>> : i, j \in Issues},
     signature : {"sig"}, repo_owner : {REPO_OWNER}, repo_name : {REPO_NAME}]

\* the submissions a participant may send: complete, or with one field left empty
Submissions ==
    FullSubmissions
    \cup {[s EXCEPT !.hotkey = ""] : s \in FullSubmissions}
    \cup {[s EXCEPT !.github_username = ""] : s \in FullSubmissions}
    \cup {[s EXCEPT !.issue_numbers = << >>] : s \in FullSubmissions}
    \cup {[s EXCEPT !.signature = ""] : s \in FullSubmissions}
    \cup {[s EXCEPT !.repo_owner = ""] : s \in FullSubmissions}
    \cup {[s EXCEPT !.repo_name = ""] : s \in FullSubmissions}

\* POST /claim with a whole submission
SubmitClaim ==
    \E submission \in Submissions :
        LET r == handle_claim_submission(kv, submission)
        IN  /\ kv' = r.kv
            /\ last' = [op |-> "claim_submission", submission |-> submission, before |-> kv,
                        status |-> r.status, claimed |-> r.claimed, rejected |-> r.rejected]
            /\ UNCHANGED <<pgState, wproc, ncalls, nregs>>

\* evaluate with a whole submission
SubmitEvaluate ==
    \E submission \in Submissions :
        LET r == evaluate_submission(kv, submission)
        IN  /\ kv' = r.kv
            /\ last' = [op |-> "evaluate_submission", submission |-> submission, before |-> kv,
                        status |-> r.status, claimed |-> r.claimed, rejected |-> r.rejected]
            /\ UNCHANGED <<pgState, wproc, ncalls, nregs>>

NextSubmit == WasmRegister \/ WasmSyncPropose \/ SubmitClaim \/ SubmitEvaluate

SpecSubmit == Init /\ [][NextSubmit]_vars

\* ------------------------------------------------- proposals by validator processes
\* each validator runs as a process of its own against the shared store
ValidatorOf(p) == IF p = "p1" THEN "v1" ELSE "v2"

\* the issue lists proposed here: each issue absent or closed with the valid label only
ProposedLists ==
    {f \in IssueLists : \A i \in Issues :
        f[i].present => f[i].is_closed /\ f[i].has_valid_label /\ ~f[i].has_invalid_label}

\* the latest proposals completed so far, per validator (<< >>: none yet)
LatestProposals ==
    IF last.op = "proposed" THEN last.latest
    ELSE [issue |-> [v \in Validators |-> << >>], sync |-> [v \in Validators |-> << >>]]

\* propose_issue_validity or propose_sync_data up to its host_storage_get: the stored list
\* is read into the call's locals
StartPropose(p) ==
    /\ wproc[p] = NoClaim
    /\ \/ \E i \in Issues, is_valid \in BOOLEAN :
              wproc' = [wproc EXCEPT ![p] =
                           [pc |-> "set_issue_proposals", issue_number |-> i, is_valid |-> is_valid,
                            proposals |-> kv.issue_validity_proposals]]
       \/ \E issues \in ProposedLists :
              wproc' = [wproc EXCEPT ![p] =
                           [pc |-> "set_sync_proposals", issues |-> issues,
                            proposals |-> kv.sync_proposals]]
    /\ UNCHANGED <<pgState, kv, last, ncalls, nregs>>

\* the rest of the call: the list that was read is changed and written back with
\* host_storage_set; handle_sync_propose then checks consensus on the stored list
FinishPropose(p) ==
    LET l == wproc[p]
        v == ValidatorOf(p)
    IN  /\ l.pc \in {"set_issue_proposals", "set_sync_proposals"}
        /\ IF l.pc = "set_issue_proposals"
           THEN /\ kv' = [kv EXCEPT !.issue_validity_proposals =
                              propose_issue_validity(l.proposals, v, l.issue_number, l.is_valid)]
                /\ last' = [op |-> "proposed",
                            latest |-> [LatestProposals EXCEPT
                                           !.issue[v] = <<[issue_number |-> l.issue_number,
                                                           is_valid |-> l.is_valid]>>]]
           ELSE /\ LET written == propose_sync_data(l.proposals, v, l.issues)
                       consensus_issues == check_sync_consensus(written)
                   IN  kv' = [kv EXCEPT !.sync_proposals = written,
                                        !.synced_issues = IF consensus_issues.found
                                                          THEN consensus_issues.issues ELSE @]
                /\ last' = [op |-> "proposed",
                            latest |-> [LatestProposals EXCEPT !.sync[v] = <<l.issues>>]]
        /\ wproc' = [wproc EXCEPT ![p] = NoClaim]
        /\ UNCHANGED <<pgState, ncalls, nregs>>

NextPropose ==
    \/ \E p \in Procs : StartPropose(p)
    \/ \E p \in Procs : FinishPropose(p)

SpecPropose == Init /\ [][NextPropose]_vars

\* the auth_hotkey of a request: absent, empty, or a key
AuthHotkeys == {<< >>, <<"">>} \cup {<<h>> : h \in Hotkeys}

\* the bodies of requests
RouteBodies ==
    [github_username : Logins, hotkey : Hotkeys, issue_number : Issues,
     validator_id : {"v1"}, issues : ProposedLists, is_valid : {TRUE},
     config : {"strict"}, well_formed : BOOLEAN]

\* a request to a route of the wasm module
RouteRequest ==
    \E route \in AuthRoutes \cup OpenRoutes, auth_hotkey \in AuthHotkeys, body \in RouteBodies :
        LET request == [method |-> route[1], path |-> route[2], auth_hotkey |-> auth_hotkey,
                        body |-> body]
            r == handle_route_request(kv, request)
        IN  /\ ncalls < MaxSyncCalls
            /\ ncalls' = ncalls + 1
            /\ kv' = r.kv
            /\ last' = [op |-> "route", request |-> request, status |-> r.status,
                        before |-> kv, after |-> r.kv]
            /\ UNCHANGED <<pgState, wproc, nregs>>

NextRoutes == RouteRequest

SpecRoutes == Init /\ [][NextRoutes]_vars

\* ------------------------------------------------- admin bonuses and the weight cache
\* the bonus weights an administrator grants, in units of 0.0001
BonusWeights == {100}

\* an hour passes
Tick ==
    /\ now < MaxNow
    /\ now' = now + 1
    /\ UNCHANGED <<pgTables, kv, wproc, proc, last, ncalls, nregs, credited_ever,
                   seen_unregistered, started_from, pass, admin_bonuses, weights_cache>>

\* an administrator grants a bonus (PgStorage::grant_admin_bonus)
GrantBonus ==
    \E hotkey \in Hotkeys, bonus_weight \in BonusWeights, duration_hours \in {<< >>, <<1>>} :
        /\ Len(admin_bonuses) < MaxBonuses
        /\ admin_bonuses' = grant_admin_bonus(admin_bonuses, hotkey, bonus_weight,
                                              duration_hours, now)
        /\ last' = [op |-> "grant_admin_bonus", id |-> Len(admin_bonuses) + 1]
        /\ UNCHANGED <<pgTables, kv, wproc, proc, ncalls, nregs, credited_ever,
                       seen_unregistered, started_from, pass, now, weights_cache>>

\* the administrators who revoke
Admins == {"admin1", "admin2"}

\* an administrator revokes a bonus by id (PgStorage::revoke_bonus)
RevokeBonus ==
    \E bonus_id \in 1..MaxBonuses, revoked_by \in Admins :
        /\ admin_bonuses' = revoke_bonus(admin_bonuses, bonus_id, revoked_by)
        /\ last' = [op |-> "revoke_bonus", id |-> bonus_id,
                    result |-> revoked_rows(admin_bonuses, bonus_id) # {}]
        /\ UNCHANGED <<pgTables, kv, wproc, proc, ncalls, nregs, credited_ever,
                       seen_unregistered, started_from, pass, now, weights_cache>>

\* PgStorage::list_active_bonuses; the call's clock reading and table are kept with it
ListActiveBonuses ==
    /\ last' = [op |-> "list_active_bonuses", at |-> now, bonuses |-> admin_bonuses,
                listed |-> list_active_bonuses(admin_bonuses, now)]
    /\ UNCHANGED <<pgState, kv, wproc, ncalls, nregs>>

\* the background task's refresh of the cache (every 300 seconds, and once at start)
RefreshWeightsCache ==
    /\ weights_cache' = refresh_weights_cache(DB, admin_bonuses, now)
    /\ UNCHANGED <<pgTables, kv, wproc, proc, last, ncalls, nregs, credited_ever,
                   seen_unregistered, started_from, pass, admin_bonuses, now>>

\* GET /get_weights of the server: always served from the cache
GetCachedWeights ==
    /\ last' = [op |-> "get_cached_weights", at |-> now, bonuses |-> admin_bonuses,
                db |-> DB, source |-> weights_cache.source, loaded |-> weights_cache.loaded,
                weights |-> get_weights_handler(weights_cache.weights)]
    /\ UNCHANGED <<pgState, kv, wproc, ncalls, nregs>>

NextBonus ==
    \/ PgRegister
    \/ ChallengeClaim
    \/ Tick
    \/ GrantBonus
    \/ RevokeBonus
    \/ ListActiveBonuses
    \/ RefreshWeightsCache
    \/ GetCachedWeights

SpecBonus == Init /\ [][NextBonus]_vars

\* run_server: the server starts (again) with an empty cache and refreshes it once before
\* it serves; the first query of the weights succeeds or fails
RunServer ==
    \E ok \in BOOLEAN :
        /\ weights_cache' = IF ok THEN refresh_weights_cache(DB, admin_bonuses, now)
                            ELSE EmptyCache
        /\ last' = [op |-> "run_server", ok |-> ok]
        /\ UNCHANGED <<pgTables, kv, wproc, proc, ncalls, nregs, credited_ever,
                       seen_unregistered, started_from, pass, admin_bonuses, now>>

\* a refresh whose query of the weights fails: the error is logged, the cache is kept
RefreshFails ==
    /\ last' = [op |-> "refresh_failed"]
    /\ UNCHANGED <<pgState, kv, wproc, ncalls, nregs>>

NextServe ==
    \/ PgRegister
    \/ ChallengeClaim
    \/ Tick
    \/ GrantBonus
    \/ RunServer
    \/ RefreshWeightsCache
    \/ RefreshFails
    \/ GetCachedWeights

SpecServe == Init /\ [][NextServe]_vars

\* the background task keeps being scheduled and its query eventually succeeds
SpecServeFair == SpecServe /\ WF_vars(RefreshWeightsCache)

\* ------------------------------------------------------------------ claims
\* the step is a completed upsert_issue call on issue i with the given result
UpsertCompleted(i, result) ==
    /\ ncalls' = ncalls + 1
    /\ last'.op = "upsert"
    /\ last'.issue = i
    /\ last'.result = result

\* C1: when two processes have run upsert_issue concurrently with the same snapshot of one
\* issue, starting from the same database, the issue has at most one credit row and at most
\* one penalty row, and its record, credit and penalty are those of a single application.
C1_ConcurrentAsSingleApplication ==
    (/\ proc["p1"].pc = "done" /\ proc["p2"].pc = "done"
     /\ proc["p1"].result = "Ok" /\ proc["p2"].result = "Ok"
     /\ proc["p1"].issue = proc["p2"].issue
     /\ proc["p1"].labels = proc["p2"].labels /\ proc["p1"].state = proc["p2"].state
     /\ started_from["p1"] = started_from["p2"])
    => LET i == proc["p1"].issue
           single == upsert_issue(started_from["p1"], i, proc["p1"].labels,
                                  proc["p1"].state, "none", FALSE).db
       IN  /\ Cardinality(RowsOf(resolved_issues, i)) <= 1
           /\ Cardinality(RowsOf(invalid_issues, i)) <= 1
           /\ HasRow(resolved_issues, i) = HasRow(single.resolved_issues, i)
           /\ HasRow(invalid_issues, i) = HasRow(single.invalid_issues, i)
           /\ github_issues[i] = single.github_issues[i]

\* the part of C1 about rows alone: no interleaving leaves two credit rows or two penalty
\* rows for one issue
AtMostOneCreditAndPenaltyRow ==
    \A i \in Issues :
        /\ Cardinality(RowsOf(resolved_issues, i)) <= 1
        /\ Cardinality(RowsOf(invalid_issues, i)) <= 1

\* C2: when upsert_issue is applied twice in a row with the same snapshot of an issue, the
\* second call leaves the issue record, the credit rows and the penalty rows as the first
\* call left them.
C2_SecondApplicationChangesNothing ==
    [][\A i \in Issues :
          (/\ last.op = "upsert" /\ last.issue = i /\ last.result = "Ok"
           /\ UpsertCompleted(i, "Ok")
           /\ github_issues'[i] = github_issues[i])
          => (resolved_issues' = resolved_issues /\ invalid_issues' = invalid_issues)]_vars

\* C3: an issue credited to registered participant h (stored labels {valid}) and then observed
\* with labels {invalid} leaves h with validCount 0, invalidCount 1 and weight 0 after that pass.
C3_ValidToInvalidReversesCredit ==
    [][\A i \in Issues, h \in Hotkeys :
          (/\ github_issues[i].present /\ github_issues[i].labels = {"valid"}
           /\ CreditedTo(resolved_issues, i) = h
           /\ get_hotkey_by_github(github_registrations, AuthorOf(i)) = h
           /\ valid_points(DB, h) = 1 /\ invalid_count(DB, h) = 0
           /\ ~HasRow(invalid_issues, i)
           /\ UpsertCompleted(i, "Ok")
           /\ github_issues'[i].labels = {"invalid"})
          => (/\ valid_points(DB', h) = 0
              /\ invalid_count(DB', h) = 1
              /\ calculate_user_weight(DB', h) = 0)]_vars

\* C4: an issue recorded as valid while its author was unregistered is credited to the
\* author's hotkey by the first later pass that still sees the valid label once the author
\* has registered, and the author's validCount rises by 1.
C4_CreditedOnceAuthorRegisters ==
    [][\A i \in Issues, h \in Hotkeys :
          (/\ i \in seen_unregistered
           /\ github_issues[i].present /\ github_issues[i].labels = {"valid"}
           /\ CreditedTo(resolved_issues, i) = NoHotkey
           /\ get_hotkey_by_github(github_registrations, AuthorOf(i)) = h
           /\ UpsertCompleted(i, "Ok")
           /\ github_issues'[i].labels = {"valid"})
          => (/\ CreditedTo(resolved_issues', i) = h
              /\ valid_points(DB', h) = valid_points(DB, h) + 1)]_vars

\* C5: an upsert_issue call that returns an error leaves the issue record, the credit rows
\* and the penalty rows exactly as they were before the call.
C5_FailedUpsertChangesNothing ==
    [][\A i \in Issues :
          UpsertCompleted(i, "Err")
          => (/\ github_issues' = github_issues
              /\ resolved_issues' = resolved_issues
              /\ invalid_issues' = invalid_issues)]_vars

\* C6: a pass that failed and was re-run with the same fetched list until it succeeded
\* leaves the issue records, credit rows and penalty rows of one failure-free pass.
C6_RetriedPassEqualsCleanPass ==
    (pass.phase = "done" /\ pass.attempts > 1)
    => LET clean == sync_repo(pass.start, pass.snaps, 1, "none", FALSE).db
       IN  /\ github_issues = clean.github_issues
           /\ resolved_issues = clean.resolved_issues
           /\ invalid_issues = clean.invalid_issues

\* C7: over its whole lifetime an issue is credited to at most one participant.
C7_OneParticipantPerIssueEver ==
    \A i \in Issues : Cardinality(credited_ever[i]) <= 1

\* C8: an issue recorded as claimed by hotkey H was opened by the GitHub user H is
\* registered as (compared without case).
C8_CreditedKeyIsRegisteredAuthor ==
    \A i \in Issues :
        kv.issue[i].present
        => LET h == kv.issue[i].claimed_by_hotkey
           IN  /\ kv.user[h] # "NONE"
               /\ to_lowercase(kv.user[h]) = to_lowercase(AuthorOf(i))

RECURSIVE TotalValidCount(_, _)
TotalValidCount(store, hotkeys) ==
    IF hotkeys = {} THEN 0
    ELSE LET h == CHOOSE x \in hotkeys : TRUE
         IN  store.balance[h].valid_count + TotalValidCount(store, hotkeys \ {h})

\* C9: when two interleaved claim submissions naming the same issue have both been processed
\* and the issue got claimed, exactly one of them claimed it and the valid_count of all
\* accounts together rose once per recorded issue.
C9_SameIssueClaimedOnce ==
    (/\ wproc["p1"].pc = "done" /\ wproc["p2"].pc = "done"
     /\ wproc["p1"].issue = wproc["p2"].issue
     /\ "claimed" \in {wproc["p1"].outcome, wproc["p2"].outcome})
    => /\ wproc["p1"].outcome # wproc["p2"].outcome
       /\ TotalValidCount(kv, Hotkeys) = Cardinality({i \in Issues : kv.issue[i].present})

\* C10: an account's invalid_count never exceeds the number of distinct issues that have an
\* invalid_issue record: recording the same issue again does not penalize again.
C10_OnePenaltyPerDistinctIssue ==
    \A h \in Hotkeys :
        kv.balance[h].invalid_count <= Cardinality({i \in Issues : kv.invalid_issue[i] # "NONE"})

Voters(i) ==
    {kv.issue_validity_proposals[n].validator_id :
        n \in {m \in 1..Len(kv.issue_validity_proposals) :
                  kv.issue_validity_proposals[m].issue_number = i}}

\* the validators whose current proposal on issue i carries the given verdict
VotersFor(i, verdict) ==
    {kv.issue_validity_proposals[n].validator_id :
        n \in {m \in 1..Len(kv.issue_validity_proposals) :
                  /\ kv.issue_validity_proposals[m].issue_number = i
                  /\ kv.issue_validity_proposals[m].is_valid = verdict}}

\* the verdict the quorum rule gives on issue i: n distinct validators, floor(n/2)+1 needed
QuorumVerdict(i) ==
    LET n == Cardinality(Voters(i))
        quorum == (n \div 2) + 1
    IN  IF n >= 1 /\ Cardinality(VotersFor(i, TRUE)) >= quorum THEN "Some(true)"
        ELSE IF n >= 1 /\ Cardinality(VotersFor(i, FALSE)) >= quorum THEN "Some(false)"
        ELSE "None"

\* C12: check_issue_consensus gives Some(true) iff the true verdicts of the n distinct
\* validators reach floor(n/2)+1, Some(false) iff the false verdicts do, None otherwise; the
\* consensus route returns that result.
C12_IssueVerdictIsQuorum ==
    /\ \A i \in VotedIssues :
          check_issue_consensus(kv.issue_validity_proposals, i) = QuorumVerdict(i)
    /\ last.op = "issue_consensus" => last.result = QuorumVerdict(last.issue)

\* five validators voted 3 true / 2 false on issue 1 and the consensus route said Some(true)
C12_Witness ==
    /\ Cardinality(VotersFor(1, TRUE)) = 3
    /\ Cardinality(VotersFor(1, FALSE)) = 2
    /\ last.op = "issue_consensus" /\ last.issue = 1 /\ last.result = "Some(true)"

\* four validators voted 2 true / 2 false on issue 1 and the consensus route said None
C12_WitnessEvenSplit ==
    /\ Cardinality(VotersFor(1, TRUE)) = 2
    /\ Cardinality(VotersFor(1, FALSE)) = 2
    /\ last.op = "issue_consensus" /\ last.issue = 1 /\ last.result = "None"

\* the validators with a current snapshot proposal
SyncProposers == {kv.sync_proposals[n].validator : n \in 1..Len(kv.sync_proposals)}

\* the validators whose current snapshot proposal reports exactly the issue numbers nums
ProposersOf(nums) ==
    {kv.sync_proposals[n].validator :
        n \in {m \in 1..Len(kv.sync_proposals) :
                  {i \in Issues : kv.sync_proposals[m].issues[i].present} = nums}}

\* the sets of issue numbers reported by at least floor(n/2)+1 of the n proposing validators
QuorumGroups ==
    {nums \in SUBSET Issues :
        Cardinality(ProposersOf(nums)) >= (Cardinality(SyncProposers) \div 2) + 1}

C14_ResolutionNeedsTwoValidators ==
    LET r == check_sync_consensus(kv.sync_proposals)
    IN  /\ \A i \in VotedIssues :
              /\ check_issue_consensus(kv.issue_validity_proposals, i) = "Some(true)"
                    => Cardinality(VotersFor(i, TRUE)) >= 2
              /\ check_issue_consensus(kv.issue_validity_proposals, i) = "Some(false)"
                    => Cardinality(VotersFor(i, FALSE)) >= 2
        /\ r.found => Cardinality(ProposersOf({i \in Issues : r.issues[i].present})) >= 2
        /\ kv.synced_issues # EmptyKV.synced_issues => Cardinality(SyncProposers) >= 2

\* the entries of validator v on issue i in a proposal store
EntriesOf(proposals, v, i) ==
    {n \in 1..Len(proposals) : proposals[n].validator_id = v /\ proposals[n].issue_number = i}

\* C15: after a validator submits a verdict on an issue the store holds exactly one proposal of
\* that validator on that issue, carrying the verdict just submitted; a resubmission adds no
\* entry, and the proposals of other validators and on other issues are left as they were.
C15_OneProposalPerValidatorAndIssue ==
    [][\A v \in Validators, i \in VotedIssues, b \in BOOLEAN :
          (/\ last'.op = "issue_propose"
           /\ kv'.issue_validity_proposals =
                  propose_issue_validity(kv.issue_validity_proposals, v, i, b))
          => /\ Cardinality(EntriesOf(kv'.issue_validity_proposals, v, i)) = 1
             /\ \A n \in EntriesOf(kv'.issue_validity_proposals, v, i) :
                    kv'.issue_validity_proposals[n].is_valid = b
             /\ EntriesOf(kv.issue_validity_proposals, v, i) # {}
                    => Len(kv'.issue_validity_proposals) = Len(kv.issue_validity_proposals)
             /\ \A w \in Validators, j \in VotedIssues :
                    <<w, j>> # <<v, i>>
                    => /\ Cardinality(EntriesOf(kv'.issue_validity_proposals, w, j)) <= 1
                       /\ {kv'.issue_validity_proposals[n].is_valid :
                               n \in EntriesOf(kv'.issue_validity_proposals, w, j)}
                          = {kv.issue_validity_proposals[n].is_valid :
                               n \in EntriesOf(kv.issue_validity_proposals, w, j)}]_vars

\* a validator resubmitted on an issue on which both validators hold a proposal, and holds one
\* proposal on each of the two issues
C15_Witness ==
    /\ last.op = "issue_propose" /\ last.change = "Updated"
    /\ Len(kv.issue_validity_proposals) = 3
    /\ \E v \in Validators :
          /\ Cardinality(EntriesOf(kv.issue_validity_proposals, v, 1)) = 1
          /\ Cardinality(EntriesOf(kv.issue_validity_proposals, v, 2)) = 1
    /\ Voters(last.issue) = Validators

\* the repositories named by the records of a proposed list
ReposOf(issues) == {issues[i].repo_name : i \in {j \in Issues : issues[j].present}}

\* C16: a validator's snapshot proposal for one repository stays in the store until the same
\* validator proposes again for that repository, and the proposals counted for a returned
\* snapshot are all proposals for the snapshot's repository.
C16_ProposalsKeptPerRepository ==
    [][/\ \A n \in 1..Len(kv.sync_proposals) :
             ReposOf(kv.sync_proposals[n].issues) # {}
             => \E m \in 1..Len(kv'.sync_proposals) :
                    /\ kv'.sync_proposals[m].validator = kv.sync_proposals[n].validator
                    /\ \/ kv'.sync_proposals[m].issues = kv.sync_proposals[n].issues
                       \/ ReposOf(kv'.sync_proposals[m].issues)
                             \subseteq ReposOf(kv.sync_proposals[n].issues)
       /\ LET r == check_sync_consensus(kv'.sync_proposals)
          IN  r.found
              => \A m \in 1..Len(kv'.sync_proposals) :
                     {i \in Issues : kv'.sync_proposals[m].issues[i].present}
                         = {i \in Issues : r.issues[i].present}
                     => ReposOf(kv'.sync_proposals[m].issues) = ReposOf(r.issues)]_vars

\* the stores holding the same proposals in another order of first submission
Reordered(proposals) ==
    {[n \in 1..Len(proposals) |-> proposals[f[n]]] : f \in Permutations(1..Len(proposals))}

\* C17: two stores holding the same latest proposal of every validator, filled in different
\* orders, give the same verdict on every issue and the same snapshot, record for record.
C17_ConsensusIndependentOfOrder ==
    /\ \A other \in Reordered(kv.issue_validity_proposals) :
           \A i \in VotedIssues :
               check_issue_consensus(other, i)
                   = check_issue_consensus(kv.issue_validity_proposals, i)
    /\ \A other \in Reordered(kv.sync_proposals) :
           check_sync_consensus(other) = check_sync_consensus(kv.sync_proposals)

\* the verdict part of C17 alone
IssueVerdictIndependentOfOrder ==
    \A other \in Reordered(kv.issue_validity_proposals) :
        \A i \in VotedIssues :
            check_issue_consensus(other, i) = check_issue_consensus(kv.issue_validity_proposals, i)

\* the (key, lower-cased identity) pairs bound in the server's github_registrations table
PgBindings ==
    {<<github_registrations[u], u>> : u \in {w \in Usernames : github_registrations[w] # NoHotkey}}

\* the (key, lower-cased identity) pairs bound in the wasm store, by user:<hotkey> and by
\* github:<username>
WasmBindings ==
    {<<h, to_lowercase(kv.user[h])>> : h \in {g \in Hotkeys : kv.user[g] # "NONE"}}
    \cup {<<kv.github[u], u>> : u \in {w \in Usernames : kv.github[w] # NoHotkey}}

\* no key with two identities and no identity with two keys
OneToOne(bindings) ==
    \A a, b \in bindings : (a[1] = b[1]) <=> (a[2] = b[2])

C18_WitnessServer ==
    /\ last.op = "register_handler" /\ last.result = "Err"
    /\ Cardinality(PgBindings) = 2

\* the bindings held before a step are held after it
BindingsKept ==
    /\ \A u \in Usernames :
           github_registrations[u] # NoHotkey => github_registrations'[u] = github_registrations[u]
    /\ \A h \in Hotkeys :
           kv.user[h] # "NONE" => to_lowercase(kv'.user[h]) = to_lowercase(kv.user[h])
    /\ \A u \in Usernames : kv.github[u] # NoHotkey => kv'.github[u] = kv.github[u]

\* C19: at every registering entry point a request naming a bound key with another identity,
\* or a bound identity with another key, is rejected and leaves the existing binding unchanged:
\* a request that is accepted changes no binding held before it.
C19_RebindingRejected ==
    [][last'.result = "Ok" => BindingsKept]_vars

\* net points of the counts, in quarter points
NetQuarters(valid, stars, penalties) == 4 * valid + stars - 8 * penalties

C20_WitnessPenalized ==
    /\ last.op = "calculate_user_weight"
    /\ last.valid = 1 /\ last.stars = 2 /\ last.penalties = 1
    /\ last.weight = 0

\* net points of a wasm balance in quarter points: valid + 0.25 * stars - 2 * invalid
BalanceNet(balance) ==
    NetQuarters(balance.valid_count, balance.star_count, balance.invalid_count)

\* C22: an account whose net points are <= 0 gets weight 0 in the status response, in the
\* list published by get_weights and as the score of a claim result.
C22_NoWeightWithoutNetPoints ==
    /\ last.op = "status"
          => (BalanceNet(kv.balance[last.hotkey]) <= 0 => last.weight = 0)
    /\ last.op = "get_weights"
          => \A n \in 1..Len(last.weights) :
                 BalanceNet(kv.balance[last.weights[n].hotkey]) <= 0 => last.weights[n].score = 0
    /\ last.op \in {"wasm_claim", "evaluate"}
          => (BalanceNet(kv.balance[last.hotkey]) <= 0 => last.score = 0)

\* netPoints of a balance, in quarter points: max(valid + 0.25 * stars - 2 * invalid, 0)
ClampedNet(balance) == IF BalanceNet(balance) > 0 THEN BalanceNet(balance) ELSE 0

\* the numerator of the weight published for a hotkey in a list whose weights share one total;
\* 0 for a hotkey absent from the list
PublishedFor(weights, hotkey) ==
    IF \E n \in 1..Len(weights) : weights[n].hotkey = hotkey
    THEN weights[CHOOSE n \in 1..Len(weights) : weights[n].hotkey = hotkey].score
    ELSE 0

\* C21: for two accounts A and B with netPoints(A) > netPoints(B) >= 0 the weight published by
\* get_weights for A is at least the one published for B.
C21_WeightMonotoneInNetPoints ==
    last.op = "get_weights"
    => \A a, b \in Hotkeys :
           ClampedNet(last.balances[a]) > ClampedNet(last.balances[b])
           => PublishedFor(last.weights, a) >= PublishedFor(last.weights, b)

\* the sum of f over the set S
RECURSIVE SumOver(_, _)
SumOver(f, S) ==
    IF S = {} THEN 0 ELSE LET x == CHOOSE y \in S : TRUE IN f[x] + SumOver(f, S \ {x})

\* a published list (numerators num, shared denominators total) is the normalization of the
\* accounts kept, whose raw weights are given by raw
NormalizedOver(hotkeys, num, total, raw, kept) ==
    /\ Len(hotkeys) = Cardinality(kept)
    /\ {hotkeys[n] : n \in 1..Len(hotkeys)} = kept
    /\ kept = {} => hotkeys = << >>
    /\ kept # {}
          => /\ SumOver(raw, kept) > 0
             /\ \A n \in 1..Len(hotkeys) : /\ num[n] = raw[hotkeys[n]]
                                          /\ total[n] = SumOver(raw, kept)
             /\ SumOver([n \in 1..Len(hotkeys) |-> num[n]], 1..Len(hotkeys)) = SumOver(raw, kept)

\* C23: the published list holds exactly the accounts of the snapshot with a weight > 0 that
\* are not penalized; when there are any, each published weight is the account's weight divided
\* by their total, so the published weights sum to 1; when there are none the list is empty.
C23_PublishedWeightsAreNormalized ==
    /\ last.op = "get_weights"
          => LET board == StoreWith(last.balances).leaderboard
                 entry == [h \in Hotkeys |-> board[CHOOSE n \in 1..Len(board) : board[n].hotkey = h]]
                 w == last.weights
             IN  NormalizedOver([n \in 1..Len(w) |-> w[n].hotkey],
                                [n \in 1..Len(w) |-> w[n].score],
                                [n \in 1..Len(w) |-> w[n].total],
                                [h \in Hotkeys |-> entry[h].score],
                                {h \in Hotkeys : entry[h].score > 0 /\ ~entry[h].is_penalized})
    /\ last.op = "get_weights_handler"
          => LET rows == last.current_weights
                 listed == {rows[n].hotkey : n \in 1..Len(rows)}
                 row == [h \in listed |-> rows[CHOOSE n \in 1..Len(rows) : rows[n].hotkey = h]]
                 w == last.weights
             IN  NormalizedOver([n \in 1..Len(w) |-> w[n].hotkey],
                                [n \in 1..Len(w) |-> w[n].weight],
                                [n \in 1..Len(w) |-> w[n].total],
                                [h \in listed |-> row[h].weight],
                                {h \in listed : row[h].weight > 0 /\ ~row[h].is_penalized})

\* two accounts of the wasm leaderboard are published with weights 2/3 and 1/3
C23_Witness ==
    /\ last.op = "get_weights"
    /\ Len(last.weights) = 2
    /\ last.weights[1].score = 5000 /\ last.weights[2].score = 2500
    /\ last.weights[1].total = 7500

\* the server's snapshot holds a penalized row with a positive weight and a row of weight 0:
\* the published list is empty
C23_WitnessEmpty ==
    /\ last.op = "get_weights_handler"
    /\ Len(last.current_weights) = 2
    /\ \E n \in 1..2 : last.current_weights[n].is_penalized /\ last.current_weights[n].weight > 0
    /\ \E n \in 1..2 : last.current_weights[n].weight = 0
    /\ last.weights = << >>

\* the ascending order of participant keys
KeyRank == [h \in Hotkeys |-> IF h = "hk1" THEN 1 ELSE 2]

\* C24: the published list is in descending order of weight with ties in ascending order of
\* participant key (the snapshots carry no lastActivity), and is the same whatever the order
\* in which the accounts of the snapshot were read.
C24_PublishedOrderIsTotal ==
    /\ last.op = "get_weights_handler"
          => /\ \A n, m \in 1..Len(last.weights) :
                    n < m => \/ last.weights[n].weight > last.weights[m].weight
                             \/ /\ last.weights[n].weight = last.weights[m].weight
                                /\ KeyRank[last.weights[n].hotkey] < KeyRank[last.weights[m].hotkey]
             /\ \A other \in Reordered(last.current_weights) :
                    get_weights_handler(other) = last.weights
    /\ last.op = "get_weights"
          => /\ \A n, m \in 1..Len(last.weights) :
                    n < m => \/ last.weights[n].score > last.weights[m].score
                             \/ /\ last.weights[n].score = last.weights[m].score
                                /\ KeyRank[last.weights[n].hotkey] < KeyRank[last.weights[m].hotkey]
             /\ \A other \in Reordered(StoreWith(last.balances).leaderboard) :
                    calculate_weights_from_leaderboard(other) = last.weights

\* the part of C24 that holds: the published weights never ascend
PublishedWeightsDescend ==
    /\ last.op = "get_weights_handler"
          => \A n, m \in 1..Len(last.weights) :
                 n < m => last.weights[n].weight >= last.weights[m].weight
    /\ last.op = "get_weights"
          => \A n, m \in 1..Len(last.weights) :
                 n < m => last.weights[n].score >= last.weights[m].score

\* the bonuses of a table that are in effect at clock reading t: active and not yet expired
InEffect(bonuses, t) ==
    {n \in DOMAIN bonuses : bonuses[n].active /\ t < bonuses[n].expires_at}

\* C25: at any time, a bonus is returned by list_active_bonuses if and only if it is active
\* and the clock is before its expiry, and it counts toward the published weight of its
\* account under the same condition: the weight published for an account, read from rows
\* of the database as it is, is the weight of its points plus its bonuses in effect, so an
\* expired bonus adds nothing though no write made it inactive, and neither does a revoked
\* one before its expiry.
C25_BonusCountsIffActiveAndUnexpired ==
    /\ last.op = "list_active_bonuses" =>
           \A n \in DOMAIN last.bonuses :
               (\E m \in DOMAIN last.listed : last.listed[m].id = n)
                   <=> n \in InEffect(last.bonuses, last.at)
    /\ (last.op = "get_cached_weights" /\ last.source = last.db) =>
           \A m \in DOMAIN last.weights :
               last.weights[m].weight =
                   calculate_user_weight(last.db, last.weights[m].hotkey)
                   + bonus_weight_of(last.bonuses, InEffect(last.bonuses, last.at),
                                     last.weights[m].hotkey)

\* list_active_bonuses returns exactly the bonuses in effect at the time of the call
ListedBonusesAreInEffect ==
    last.op = "list_active_bonuses" =>
        \A n \in DOMAIN last.bonuses :
            (\E m \in DOMAIN last.listed : last.listed[m].id = n)
                <=> n \in InEffect(last.bonuses, last.at)

\* the counts of credit and penalty rows of every hotkey, as calculate_user_weight reads them
LedgerCounts(db) ==
    [h \in Hotkeys |-> [valid |-> valid_points(db, h), invalid |-> invalid_count(db, h)]]

\* C26: the valid and invalid counts behind an account's weight change only in a step
\* that is a sync of an issue detecting BecameValid, BecameInvalid or LostValid; a
\* POST /invalid request or a claim submission leaves them as they were.
C26_CountsChangeOnlyByTransition ==
    [][LedgerCounts(DB)' # LedgerCounts(DB) =>
          /\ last'.op = "upsert"
          /\ last'.change \in {"BecameValid", "BecameInvalid", "LostValid"}]_vars

\* C27: a step of mark_deleted_issues or restore_issue changes nothing but the deleted
\* marker of issue records: every other field of every issue record, the credit rows, the
\* penalty rows, the registrations and stars, and with them every account's counts and
\* weight, are after the step what they were before it, for every seen list and issue.
C27_DeletionTouchesOnlyTheMarker ==
    [][last'.op \in {"mark_deleted_issues", "restore_issue"} =>
          /\ resolved_issues' = resolved_issues
          /\ invalid_issues' = invalid_issues
          /\ github_registrations' = github_registrations
          /\ github_stars' = github_stars
          /\ LedgerCounts(DB)' = LedgerCounts(DB)
          /\ \A h \in Hotkeys : calculate_user_weight(DB, h)' = calculate_user_weight(DB, h)
          /\ \A i \in Issues :
                 [github_issues'[i] EXCEPT !.deleted = github_issues[i].deleted]
                     = github_issues[i]]_vars

\* a credited issue has been marked deleted by a call that did not see it
C27_Witness ==
    /\ last.op = "mark_deleted_issues"
    /\ last.result = 1
    /\ \E i \in Issues : /\ github_issues[i].deleted
                          /\ i \notin last.seen
                          /\ HasRow(resolved_issues, i)

\* a deleted issue holding a penalty row has been restored
C27_WitnessRestored ==
    /\ last.op = "restore_issue"
    /\ last.restored
    /\ ~github_issues[last.issue].deleted
    /\ HasRow(invalid_issues, last.issue)

\* a submission with an empty hotkey, username, issue list, signature or repository
HasEmptyField(submission) ==
    \/ submission.hotkey = ""
    \/ submission.github_username = ""
    \/ submission.issue_numbers = << >>
    \/ submission.signature = ""
    \/ submission.repo_owner = ""
    \/ submission.repo_name = ""

\* C28: a claim submission with an empty hotkey, username, issue list, signature or
\* repository identifier is refused, on POST /claim and on evaluate alike, and the
\* store (issue records, balances, leaderboard) is after it what it was before.
C28_EmptyFieldRefusedWithoutWrite ==
    (last.op \in {"claim_submission", "evaluate_submission"} /\ HasEmptyField(last.submission))
        => /\ last.status \notin {"ok", "success"}
           /\ kv = last.before

\* POST /claim alone refuses every submission with an empty field and writes nothing
ClaimRouteRefusesEmptyFields ==
    (last.op = "claim_submission" /\ HasEmptyField(last.submission))
        => /\ last.status = "bad_request"
           /\ kv = last.before

\* the number of entries of a list that satisfy a test
CountIn(list, Test(_)) == Cardinality({k \in DOMAIN list : Test(list[k])})

C29_WitnessRepeated ==
    /\ last.op = "evaluate_submission"
    /\ last.status = "success"
    /\ \E n \in Issues :
           /\ last.submission.issue_numbers = <<n, n>>
           /\ last.claimed = <<n>>
           /\ last.rejected = <<[issue_number |-> n, reason |-> "Issue already claimed"]>>

\* the challenge's claim of an issue that already has a credit row changes no table
PgClaimOfRecordedIssueIsNoOp ==
    [][(last'.op = "claim" /\ last' # last /\ HasRow(resolved_issues, last'.issue))
          => DB' = DB]_vars

\* C30: whenever a completed upsert_issue call observes an issue whose stored labels
\* contain valid and whose new labels do not, and the call does not report BecameInvalid,
\* it reports LostValid and the issue has no credit row afterwards; this includes the call
\* that adds the invalid label to an issue that already has a penalty row.
C30_ValidLabelLostReversesCredit ==
    [][\A i \in Issues :
          (/\ github_issues[i].present
           /\ "valid" \in github_issues[i].labels
           /\ UpsertCompleted(i, "Ok")
           /\ "valid" \notin github_issues'[i].labels
           /\ last'.change # "BecameInvalid")
          => (/\ last'.change = "LostValid"
              /\ ~HasRow(resolved_issues', i))]_vars

C31_WitnessSeenAgain ==
    /\ pass.phase = "done"
    /\ \E i \in Issues : /\ pass.start.github_issues[i].deleted
                          /\ i \in pass.snaps.seen
                          /\ ~github_issues[i].deleted

\* C32: after any sequence of credits and penalties on a wasm balance, the stored
\* is_penalized flag says whether the net points of the current counts are zero or less:
\* a flag set by an earlier penalty does not outlive credits that make the net points
\* positive, and a penalty that brings them to zero sets it.
C32_PenalizedFlagFollowsNetPoints ==
    last.op = "get_weights" /\ "balances" \in DOMAIN last =>
        \A h \in Hotkeys :
            LET balance == last.balances[h]
            IN  balance.valid_count + balance.invalid_count > 0
                    => (balance.is_penalized <=> BalanceNet(balance) <= 0)

\* C33: whenever no proposal submission is in flight, the latest proposal each validator
\* has submitted is in the store, for the verdict on an issue and for the sync data alike:
\* however the submissions of different validators interleave, none is lost or overwritten
\* by another validator's submission.
C33_EveryLatestProposalIsStored ==
    (\A p \in Procs : wproc[p] = NoClaim) =>
        \A v \in Validators :
            /\ LatestProposals.issue[v] # << >> =>
                   \E n \in DOMAIN kv.issue_validity_proposals :
                       kv.issue_validity_proposals[n] =
                           [validator_id |-> v,
                            issue_number |-> LatestProposals.issue[v][1].issue_number,
                            is_valid |-> LatestProposals.issue[v][1].is_valid]
            /\ LatestProposals.sync[v] # << >> =>
                   \E n \in DOMAIN kv.sync_proposals :
                       kv.sync_proposals[n] =
                           [validator |-> v, issues |-> LatestProposals.sync[v][1]]

(***************************************************************************)
(* C34: a sync proposal that leaves consensus unresolved keeps the stored  *)
(* synced issue data as it was and the request still succeeds; the stored  *)
(* data changes only to the snapshot of a proposal whose issue numbers     *)
(* form a quorum group of the proposals present when it is stored.         *)
(***************************************************************************)
C34_UnresolvedProposalKeepsSyncedData ==
    [][last'.op = "sync_propose" =>
          LET r == check_sync_consensus(kv'.sync_proposals)
          IN  /\ last'.result = "Ok"
              /\ ~r.found => kv'.synced_issues = kv.synced_issues
              /\ kv'.synced_issues # kv.synced_issues =>
                    /\ r.found
                    /\ kv'.synced_issues = r.issues
                    /\ \E n \in 1..Len(kv'.sync_proposals) :
                           kv'.sync_proposals[n].issues = kv'.synced_issues
                    /\ ({i \in Issues : kv.synced_issues[i].present} \in QuorumGroups)']_vars

C34_Witness ==
    /\ last.op = "sync_propose"
    /\ ~check_sync_consensus(kv.sync_proposals).found
    /\ Len(kv.sync_proposals) >= 2
    /\ \E i \in Issues : kv.synced_issues[i].present

\* the number of stored issue records claimed by hotkey h
ClaimedBy(store, h) ==
    Cardinality({i \in Issues : store.issue[i].present /\ store.issue[i].claimed_by_hotkey = h})

(***************************************************************************)
(* C35: when a host storage write fails during record_valid_issue, the     *)
(* issue record and the claimant's valid_count change together or not at   *)
(* all: no issue is recorded as claimed by a key whose valid_count was not *)
(* incremented for it.                                                     *)
(***************************************************************************)
C35_IssueRecordAndCountTogether ==
    \A h \in Hotkeys : kv.balance[h].valid_count >= ClaimedBy(kv, h)

(***************************************************************************)
(* C36: revoke_bonus on an active bonus deactivates it at once, whatever   *)
(* its expiresAt, appends the revocation note to its reason and returns    *)
(* true; revoking a revoked or unknown bonus returns false and changes     *)
(* nothing, and a revoked bonus never becomes active again.                *)
(***************************************************************************)
C36_RevokeDeactivatesOnce ==
    [][/\ \A n \in DOMAIN admin_bonuses :
              ~admin_bonuses[n].active =>
                  n \in DOMAIN admin_bonuses' /\ admin_bonuses'[n] = admin_bonuses[n]
       /\ (last'.op = "revoke_bonus" /\ last' # last) =>
              LET id == last'.id
                  wasActive == id \in DOMAIN admin_bonuses /\ admin_bonuses[id].active
              IN  /\ last'.result = wasActive
                  /\ ~wasActive => admin_bonuses' = admin_bonuses
                  /\ wasActive =>
                        /\ DOMAIN admin_bonuses' = DOMAIN admin_bonuses
                        /\ ~admin_bonuses'[id].active
                        /\ id \notin active_admin_bonuses(admin_bonuses', now')
                        /\ \E a \in Admins :
                               admin_bonuses'[id] =
                                   [admin_bonuses[id] EXCEPT
                                       !.active = FALSE,
                                       !.reason = Append(@, RevocationNote(a))]
                        /\ \A n \in DOMAIN admin_bonuses :
                               n # id => admin_bonuses'[n] = admin_bonuses[n]]_vars

\* an expired bonus that was still active has been revoked
C36_Witness ==
    /\ last.op = "revoke_bonus"
    /\ last.result
    /\ ~admin_bonuses[last.id].active
    /\ Len(admin_bonuses[last.id].reason) = 1
    /\ now >= admin_bonuses[last.id].expires_at

\* a revoked bonus has been revoked again: false, one note only
C36_WitnessRevokedTwice ==
    /\ last.op = "revoke_bonus"
    /\ ~last.result
    /\ last.id \in DOMAIN admin_bonuses
    /\ Len(admin_bonuses[last.id].reason) = 1

(***************************************************************************)
(* C37: between refreshes and after a failed refresh the response of       *)
(* /get_weights is computed from the last successfully loaded list, never  *)
(* from an empty or partly replaced one; with the refresh task scheduled   *)
(* and its queries eventually succeeding, every change of the stored       *)
(* weights is eventually served.                                           *)
(***************************************************************************)
C37_ServedFromLastLoadedList ==
    last.op = "get_cached_weights" =>
        /\ last.loaded
        /\ last.weights = get_weights_handler(weights_cache.weights)
        /\ weights_cache.loaded

\* the liveness half: the list the responses are computed from is the stored weights
\* again and again
C37_ChangesEventuallyServed ==
    []<>(weights_cache.weights = get_current_weights(DB, admin_bonuses, now))

\* the safety half once a load has succeeded: a step changes the cached list only by
\* replacing it with the weights stored at that moment, or by a restart
C37_CacheReplacedWhole ==
    [][weights_cache' # weights_cache =>
          \/ weights_cache' = refresh_weights_cache(DB, admin_bonuses, now)
          \/ last'.op = "run_server" /\ ~last'.ok /\ weights_cache' = EmptyCache]_vars

(***************************************************************************)
(* C38: whenever no claim is in progress and no storage call has failed,   *)
(* each account's valid_count equals the number of stored issue records    *)
(* whose claimed_by_hotkey is that account's key.                          *)
(***************************************************************************)
C38_ValidCountEqualsClaimedRecords ==
    (\A p \in Procs : wproc[p].pc = "idle") =>
        \A h \in Hotkeys : kv.balance[h].valid_count = ClaimedBy(kv, h)

(***************************************************************************)
(* C39: a fetch of a repository's issues that fails or is cut short by an  *)
(* API error on some page never causes a stored issue to be marked         *)
(* deleted: only a complete listing of the repository is handed to         *)
(* mark_deleted_issues.                                                    *)
(***************************************************************************)
C39_FailedFetchMarksNothingDeleted ==
    (last.op = "fetch_and_sync" /\ last.outcome # "page") =>
        \A i \in Issues :
            (github_issues[i].present /\ github_issues[i].deleted) =>
                (last.before[i].present /\ last.before[i].deleted)

(***************************************************************************)
(* C40: every wasm route declared with requires_auth = true answers a      *)
(* request that carries no auth_hotkey, or an empty one, with status 401   *)
(* and writes nothing to the store.                                        *)
(***************************************************************************)
C40_AuthRoutesRefuseWithoutHotkey ==
    (/\ last.op = "route"
     /\ <<last.request.method, last.request.path>> \in AuthRoutes
     /\ last.request.auth_hotkey \in {<< >>, <<"">>})
    => /\ last.status = 401
       /\ last.after = last.before

\* an empty auth_hotkey was refused on a store that authenticated requests had written to
C40_Witness ==
    /\ last.op = "route"
    /\ <<last.request.method, last.request.path>> \in AuthRoutes
    /\ last.request.auth_hotkey = <<"">>
    /\ last.request.body.well_formed
    /\ last.status = 401
    /\ last.before # EmptyKV
    /\ kv = last.before
==============================================================================
